---- MODULE Spec2Model ----
(***************************************************************************)
(* A model of the API routes of the AI-Applications suite:                 *)
(*   - the summarization route (Hugging Face candidates, Gemini fallback), *)
(*   - the classification route (Hugging Face, Gemini fallback),           *)
(*   - the document (RAG) route with its process-wide vector store,        *)
(*   - the enhanced-chat route with per-session memory and streaming.      *)
(* Every handler is an async function: one action of the model is the run  *)
(* of a handler from one await on a remote call to the next.               *)
(***************************************************************************)
EXTENDS Integers, Sequences, FiniteSets, TLC

VARIABLES
    env,            \* process.env: the three credentials
    summarize,      \* one summarization request: position, locals, calls, response
    classify,       \* one classification request: position, locals, calls, response
    vectorStore,    \* the module variable vectorStore: 0 for null, or a store
    stores,         \* the MemoryVectorStore objects: what each holds
    documentCount,  \* the module variable documentCount
    rag,            \* the document requests in flight, each at an await
    ragResponse,    \* the response the document route sent in the last step
    uploaded,       \* history: the files ingested since the last clear
    conversationMemories,  \* the Map conversationMemories: session id to memory
    memories,       \* the ConversationSummaryBufferMemory objects: their turns
    chat,           \* the enhanced-chat requests in flight
    chatResponse,   \* the enhanced-chat exchange that ended in the last step
    qna             \* one Q&A request: position, locals, response

ragVars == <<vectorStore, stores, documentCount, rag, ragResponse, uploaded>>
chatVars == <<conversationMemories, memories, chat, chatResponse>>

vars == <<env, summarize, classify, ragVars, chatVars, qna>>

\* What the handlers of a route leave alone.
exceptSummarize == <<env, classify, ragVars, chatVars, qna>>
exceptClassify == <<env, summarize, ragVars, chatVars, qna>>
exceptRag == <<env, summarize, classify, chatVars, qna>>
exceptChat == <<env, summarize, classify, ragVars, qna>>
exceptQna == <<env, summarize, classify, ragVars, chatVars>>

-----------------------------------------------------------------------------
(* JavaScript values. Every value is a record with a type tag t.           *)
(* A string is kept as what the routes read of it: its length, its number  *)
(* of words, its leading+trailing whitespace, and id, which stands for its *)
(* characters (two strings with different ids are different texts).        *)

Undefined == [t |-> "undefined"]
Null == [t |-> "null"]
\* A number is the quotient n / d (d > 0).
JsRatio(n, d) == [t |-> "number", n |-> n, d |-> d]
JsNumber(n) == JsRatio(n, 1)
JsNaN == [t |-> "NaN"]
JsNegInfinity == [t |-> "-Infinity"]
JsString(id, len, words, ws) ==
    [t |-> "string", id |-> id, len |-> len, words |-> words, ws |-> ws]
JsArray(items) == [t |-> "array", items |-> items]
JsObject(props) == [t |-> "object", props |-> props]

\* ToBoolean: undefined, null, NaN, 0 and "" are falsy.
Truthy(v) ==
    CASE v.t \in {"undefined", "null", "NaN"} -> FALSE
      [] v.t = "number" -> v.n # 0
      [] v.t = "string" -> v.len > 0
      [] OTHER -> TRUE

\* v[i] for a zero-based index i (undefined when there is no such element).
Index(v, i) ==
    IF v.t = "array" /\ i + 1 <= Len(v.items) THEN v.items[i + 1] ELSE Undefined

\* v?.k and v.k on an object (undefined when there is no such property).
Prop(v, k) ==
    IF v.t = "object" /\ k \in DOMAIN v.props THEN v.props[k] ELSE Undefined

\* String.prototype.trim
Trim(s) == JsString(s.id, s.len - s.ws, s.words, 0)

\* The outcome of evaluating an expression that throws.
Throw == [t |-> "throw"]

Nullish(v) == v.t \in {"undefined", "null"}

\* v.k as JavaScript evaluates it: a TypeError on undefined and null,
\* undefined on a value that has no such property.
Member(v, k) == IF Nullish(v) THEN Throw ELSE Prop(v, k)

\* v[i] as JavaScript evaluates it: a TypeError on undefined and null, the
\* character at i on a string.
Elem(v, i) ==
    CASE Nullish(v) -> Throw
      [] v.t = "string" -> (IF i < v.len THEN JsString(v.id, 1, 1, 0) ELSE Undefined)
      [] OTHER -> Index(v, i)

\* Array.prototype.flat(): the elements, with those of each nested array in
\* place of it.
RECURSIVE Flat(_)
Flat(items) ==
    IF items = <<>> THEN <<>>
    ELSE (IF Head(items).t = "array" THEN Head(items).items ELSE <<Head(items)>>)
            \o Flat(Tail(items))

\* Math.round of the quotient num / den (den > 0): halves round up.
MathRoundDiv(num, den) == (2 * num + den) \div (2 * den)

\* Math.round(v * 100): undefined * 100 is NaN, null * 100 is 0.
MathRound100(v) ==
    CASE v.t = "number" -> JsNumber(MathRoundDiv(100 * v.n, v.d))
      [] v.t = "null" -> JsNumber(0)
      [] OTHER -> JsNaN

-----------------------------------------------------------------------------
(* Number arithmetic. A number of JavaScript is a binary64 float: a sign   *)
(* and a significand of 53 bits (most significant first, the first one 1)  *)
(* times a power of two; every operation rounds its exact result to the    *)
(* nearest such number, a tie going to the even significand.               *)

SignificandBits == 53

\* The bits of a natural number, most significant first.
RECURSIVE Bits(_)
Bits(n) == IF n = 0 THEN <<>> ELSE Append(Bits(n \div 2), n % 2)

\* The natural number of a short sequence of bits.
RECURSIVE BitsValue(_)
BitsValue(bits) ==
    IF bits = <<>> THEN 0
    ELSE 2 * BitsValue(SubSeq(bits, 1, Len(bits) - 1)) + bits[Len(bits)]

Zeros(n) == [i \in 1 .. n |-> 0]

StripZeros(bits) ==
    IF \A i \in DOMAIN bits : bits[i] = 0 THEN <<>>
    ELSE SubSeq(bits,
                CHOOSE i \in DOMAIN bits : bits[i] = 1 /\ \A j \in 1 .. i - 1 : bits[j] = 0,
                Len(bits))

\* Long sequences of bits are added, subtracted and multiplied in digits of
\* LimbBits bits.
LimbBits == 13
LimbBase == 2 ^ LimbBits

\* The digits of a sequence of bits, and the bits of a sequence of digits.
LimbsOf(padded, n) ==
    [k \in 1 .. n |-> BitsValue(SubSeq(padded, (k - 1) * LimbBits + 1, k * LimbBits))]

Limbs(bits, n) == LimbsOf(Zeros(n * LimbBits - Len(bits)) \o bits, n)

LimbsBits(limbs) ==
    [i \in 1 .. Len(limbs) * LimbBits |->
        (limbs[(i - 1) \div LimbBits + 1] \div 2 ^ (LimbBits - 1 - ((i - 1) % LimbBits))) % 2]

LimbCount(a, b) ==
    ((IF Len(a) > Len(b) THEN Len(a) ELSE Len(b)) + LimbBits - 1) \div LimbBits

\* The sum of two sequences of i digits and a carry: i + 1 digits.
RECURSIVE AddFrom(_, _, _, _)
AddFrom(a, b, i, carry) ==
    IF i = 0 THEN <<carry>>
    ELSE Append(AddFrom(a, b, i - 1, (a[i] + b[i] + carry) \div LimbBase),
                (a[i] + b[i] + carry) % LimbBase)

AddBits(a, b) ==
    LimbsBits(AddFrom(Limbs(a, LimbCount(a, b)), Limbs(b, LimbCount(a, b)),
                      LimbCount(a, b), 0))

\* The difference of two sequences of i digits (a not less than b) less a
\* borrow: i digits.
RECURSIVE SubFrom(_, _, _, _)
SubFrom(a, b, i, borrow) ==
    IF i = 0 THEN <<>>
    ELSE Append(SubFrom(a, b, i - 1, IF a[i] - b[i] - borrow < 0 THEN 1 ELSE 0),
                (a[i] - b[i] - borrow + LimbBase) % LimbBase)

SubBits(a, b) ==
    LimbsBits(SubFrom(Limbs(a, LimbCount(a, b)), Limbs(b, LimbCount(a, b)),
                      LimbCount(a, b), 0))

\* The product of a sequence of i digits and a small number n, plus a
\* carry: i + 1 digits.
RECURSIVE MulFrom(_, _, _, _)
MulFrom(a, n, i, carry) ==
    IF i = 0 THEN <<carry>>
    ELSE Append(MulFrom(a, n, i - 1, (a[i] * n + carry) \div LimbBase),
                (a[i] * n + carry) % LimbBase)

MulBits(a, n) ==
    LimbsBits(MulFrom(Limbs(a, LimbCount(a, a)), n, LimbCount(a, a), 0))

Float(sign, bits, exp) == [sign |-> sign, bits |-> bits, exp |-> exp]
FloatZero == Float(1, <<>>, 0)

\* The float of a significand that went up by one: 53 bits, or 54 when it
\* is a power of two.
RoundedUp(sign, inc, exp) ==
    Float(sign, SubSeq(inc, 1, SignificandBits), exp + Len(inc) - SignificandBits)

\* The float nearest to sign * b * 2^exp, ties to even, for bits b that
\* begin with 1.
RoundBits(sign, b, exp) ==
    IF Len(b) = 0 THEN FloatZero
    ELSE IF Len(b) <= SignificandBits
    THEN Float(sign, b \o Zeros(SignificandBits - Len(b)), exp - (SignificandBits - Len(b)))
    ELSE IF /\ b[SignificandBits + 1] = 1
            /\ \/ b[SignificandBits] = 1
               \/ \E i \in SignificandBits + 2 .. Len(b) : b[i] = 1
    THEN RoundedUp(sign, StripZeros(AddBits(SubSeq(b, 1, SignificandBits), <<1>>)),
                   exp + Len(b) - SignificandBits)
    ELSE Float(sign, SubSeq(b, 1, SignificandBits), exp + Len(b) - SignificandBits)

\* The float nearest to sign * bits * 2^exp.
RoundToFloat(sign, bits, exp) == RoundBits(sign, StripZeros(bits), exp)

\* The next n digits of the fraction r / den (r < den) after limbs, and
\* what remains.
RECURSIVE LongDivision(_, _, _, _)
LongDivision(r, den, n, limbs) ==
    IF n = 0 THEN [limbs |-> limbs, rem |-> r]
    ELSE LongDivision((r * LimbBase) % den, den, n - 1,
                      Append(limbs, (r * LimbBase) \div den))

\* The digits of the fraction of a quotient that are worked out before it
\* is rounded: enough for the quotient of two counts of words of a text
\* the route accepts.
QuotientLimbs == 7

\* num / den for two natural numbers, den > 0: the bits of the quotient and
\* a last bit that says whether more follow, rounded.
Quotient(q) ==
    RoundToFloat(1, Append(LimbsBits(q.limbs), IF q.rem = 0 THEN 0 ELSE 1),
                 0 - (QuotientLimbs * LimbBits + 1))

Divide(num, den) == Quotient(LongDivision(num % den, den, QuotientLimbs, <<num \div den>>))

\* 1 - x for a float x >= 0 below 2^53: exact in the unit of x, rounded.
OneMinus(x) ==
    IF x.bits = <<>> THEN Float(1, <<1>> \o Zeros(SignificandBits - 1), 1 - SignificandBits)
    ELSE IF 1 - x.exp > Len(x.bits)
    THEN RoundToFloat(1, SubBits(<<1>> \o Zeros(0 - x.exp), x.bits), x.exp)
    ELSE RoundToFloat(-1, SubBits(x.bits, <<1>> \o Zeros(0 - x.exp)), x.exp)

\* x * 100, rounded.
TimesHundred(x) == RoundToFloat(x.sign, MulBits(x.bits, 100), x.exp)

\* Math.round of a float below 2^52: the nearest integer, a half going up.
RoundHalfUp(sign, P, f) ==
    IF sign = 1
    THEN BitsValue(StripZeros(SubSeq(P, 1, Len(P) - f))) + P[Len(P) - f + 1]
    ELSE IF P[Len(P) - f + 1] = 1 /\ \E i \in Len(P) - f + 2 .. Len(P) : P[i] = 1
    THEN 0 - (BitsValue(StripZeros(SubSeq(P, 1, Len(P) - f))) + 1)
    ELSE 0 - BitsValue(StripZeros(SubSeq(P, 1, Len(P) - f)))

MathRound(x) ==
    IF x.bits = <<>> THEN 0
    ELSE RoundHalfUp(x.sign,
                     (IF 1 - x.exp > Len(x.bits)
                      THEN Zeros(1 - x.exp - Len(x.bits)) ELSE <<>>) \o x.bits,
                     0 - x.exp)

-----------------------------------------------------------------------------
(* process.env *)

CredentialStates == {"absent", "placeholder", "set"}

Env == [HUGGINGFACE_API_TOKEN : CredentialStates,
        GOOGLE_GEMINI_API_KEY : CredentialStates,
        OPENROUTER_API_KEY : CredentialStates]

\* !process.env.X || process.env.X === "your_..._here"
NotConfigured(credential) == credential \in {"absent", "placeholder"}

-----------------------------------------------------------------------------
(* Summarization route *)

MinTextLength == 50
MaxTextLength == 10000

\* HUGGINGFACE_MODELS[key]: the model name, or undefined. "constructor" is a
\* key the object literal inherits from Object.prototype: the lookup yields
\* a function, which is truthy.
HUGGINGFACE_MODELS(key) ==
    CASE key = "bart-cnn" -> "facebook/bart-large-cnn"
      [] key = "t5-small" -> "t5-small"
      [] key = "pegasus" -> "google/pegasus-large"
      [] key = "constructor" -> "function Object() { [native code] }"
      [] OTHER -> "undefined"

\* if (HUGGINGFACE_MODELS[modelKey])
RecognizedModel(key) == HUGGINGFACE_MODELS(key) # "undefined"

\* const modelOrder = [model as ModelKey, "bart-cnn", "t5-small"]
ModelOrder(model) == <<model, "bart-cnn", "t5-small">>

\* The for loop from position i on, up to its next await: the position of
\* the next candidate that is attempted, Len(order) + 1 when there is none.
RECURSIVE NextCandidate(_, _)
NextCandidate(order, i) ==
    IF i > Len(order) THEN i
    ELSE IF RecognizedModel(order[i]) THEN i
    ELSE NextCandidate(order, i + 1)

\* The word counts texts are drawn with.
MaxWords == 1
WordCounts == (0 .. MaxWords) \cup {17, 20, 40, 100}

\* countWords: text.trim().split(/\s+/).filter(word => word.length > 0).length
countWords(text) == text.words

\* Math.round((1 - summaryWords / originalWords) * 100), each operation in
\* floats, for the word counts texts are drawn with (a table, worked out
\* once).
CompressionRatios ==
    [counts \in (WordCounts \ {0}) \X WordCounts |->
        MathRound(TimesHundred(OneMinus(Divide(counts[2], counts[1]))))] @@ <<>>

\* Lines 98-102. With no original word the quotient is NaN (0/0) or
\* Infinity (n/0).
calculateCompressionRatio(originalText, summary) ==
    LET originalWords == countWords(originalText)
        summaryWords == countWords(summary)
    IN  IF originalWords = 0
        THEN (IF summaryWords = 0 THEN JsNaN ELSE JsNegInfinity)
        ELSE JsNumber(CompressionRatios[<<originalWords, summaryWords>>])

\* callHuggingFaceAPI after the fetch: the summary string the parsed body
\* yields, Null standing for the exception thrown.
HuggingFaceSummary(result) ==
    IF result.t = "array" /\ Truthy(Prop(Index(result, 0), "summary_text"))
    THEN Prop(Index(result, 0), "summary_text")
    ELSE IF result.t = "array" /\ Truthy(Prop(Index(result, 0), "generated_text"))
    THEN Prop(Index(result, 0), "generated_text")
    ELSE IF result.t = "string" THEN result
    ELSE Null

\* Response.json(body, {status})
JsonResponse(status, body) == [status |-> status, type |-> "json", body |-> body]

ErrorBody(message) == [success |-> FALSE, error |-> message]

\* Lines 157-168: the result of a request that has a summary.
SummarizationResult(text, summary) ==
    JsonResponse(200,
        [success |-> TRUE,
         data |-> [originalText |-> text,
                   summary |-> Trim(summary),
                   wordCount |-> countWords(Trim(summary)),
                   compressionRatio |-> calculateCompressionRatio(text, Trim(summary))]])

AllUnavailable ==
    JsonResponse(503, ErrorBody("All summarization services are currently unavailable. Please check your API keys and try again later."))

NoResponse == [status |-> 0, type |-> "none", body |-> [success |-> FALSE, error |-> ""]]

\* One call of tryHuggingFaceSummarization / tryGeminiSummarization: the
\* position and key of the candidate, the model name it asks the provider
\* for, and remote, which says whether the call got as far as the provider
\* (the credential check comes first).
HuggingFaceCall(pos, key) ==
    [fn |-> "tryHuggingFaceSummarization", pos |-> pos, key |-> key,
     model |-> HUGGINGFACE_MODELS(key),
     remote |-> ~NotConfigured(env.HUGGINGFACE_API_TOKEN)]

GeminiCall ==
    [fn |-> "tryGeminiSummarization", pos |-> 0, key |-> "gemini",
     model |-> "gemini-1.5-flash",
     remote |-> ~NotConfigured(env.GOOGLE_GEMINI_API_KEY)]

-----------------------------------------------------------------------------
(* Inputs of the summarization route *)

\* The lengths a request text is drawn with: around both limits.
TextLengths == {0, MinTextLength - 1, MinTextLength, MaxTextLength, MaxTextLength + 1}

\* A string of len characters can hold words words and ws surrounding
\* whitespace characters: without words it is all whitespace, and words are
\* at least one character each, with a separator between two of them.
WellFormedString(len, words, ws) ==
    /\ ws <= len
    /\ words = 0 => ws = len
    /\ words > 0 => ws + 2 * words - 1 <= len

Strings(id, lengths) ==
    {JsString(id, l, w, s) : <<l, w, s>> \in
        {x \in lengths \X WordCounts \X {0, 2} \cup {<<l, 0, l>> : l \in lengths} :
            WellFormedString(x[1], x[2], x[3])}}

\* The text field of a request body: missing, not a string, or a string.
RequestTexts ==
    {Undefined, Null, JsNumber(0), JsNumber(42), JsObject([content |-> Null])}
        \cup Strings("request", TextLengths)

\* The model field of a request body: omitted, a known key, an unknown key,
\* or a key the models object inherits.
RequestModels == {"(omitted)", "bart-cnn", "t5-small", "pegasus", "gpt-4", "constructor"}

\* const { text, model = "bart-cnn", ... } = await req.json()
DefaultModel(model) == IF model = "(omitted)" THEN "bart-cnn" ELSE model

\* The text a provider call returns; its id names the call it comes from.
ProviderTexts(id) == Strings(id, {0, 2, 120, 122})

\* The id of the texts the call at position pos of the model order returns.
CandidateId(pos) ==
    CASE pos = 1 -> "huggingface-1"
      [] pos = 2 -> "huggingface-2"
      [] pos = 3 -> "huggingface-3"
      [] OTHER -> "none"

\* What the fetch of callHuggingFaceAPI comes back with: a rejected fetch, a
\* response that is not ok, a body that is not JSON, or a parsed body.
HuggingFaceBodies(id) ==
    {JsArray(<<JsObject([summary_text |-> s])>>) : s \in ProviderTexts(id)}
        \cup {JsArray(<<JsObject([generated_text |-> s])>>) : s \in ProviderTexts(id)}
        \cup ProviderTexts(id)
        \cup {JsArray(<<>>), JsObject([error |-> JsString(id, 16, 3, 0)]), Null}

HuggingFaceFetches(id) ==
    {[fetch |-> "rejected"], [fetch |-> "not_ok"], [fetch |-> "invalid_json"]}
        \cup {[fetch |-> "ok", json |-> b] : b \in HuggingFaceBodies(id)}

\* What generateContent comes back with: an exception, or a text.
GeminiGenerations ==
    {[generate |-> "rejected"]}
        \cup {[generate |-> "ok", text |-> s] : s \in ProviderTexts("gemini")}

\* The inference API answers only for the name of a model it hosts: the
\* lookup of an inherited key or of an unknown key gives no such name.
HostedModel(name) ==
    name \notin {"undefined", "function Object() { [native code] }"}

\* callHuggingFaceAPI (lines 18-56), Null standing for every exception, as
\* tryHuggingFaceSummarization (lines 58-66) turns each into null.
tryHuggingFaceSummarization(fetched) ==
    IF NotConfigured(env.HUGGINGFACE_API_TOKEN) THEN Null
    ELSE IF fetched.fetch # "ok" THEN Null
    ELSE HuggingFaceSummary(fetched.json)

\* tryGeminiSummarization (lines 69-91)
tryGeminiSummarization(generated) ==
    IF NotConfigured(env.GOOGLE_GEMINI_API_KEY) THEN Null
    ELSE IF generated.generate # "ok" THEN Null
    ELSE generated.text

-----------------------------------------------------------------------------
(* The summarization handler, POST of summarize/route.ts *)

SummarizeIdle ==
    [pc |-> "idle", parsed |-> FALSE, text |-> Undefined, model |-> "(omitted)",
     idx |-> 0, summary |-> Null, calls |-> <<>>, results |-> <<>>, response |-> NoResponse]

\* The handler after a candidate failed at position idx: the next recognized
\* candidate is called, or Gemini when the loop is over.
SummarizeContinue(s, idx) ==
    LET order == ModelOrder(s.model)
        j == NextCandidate(order, idx + 1)
    IN  IF j <= Len(order)
        THEN [s EXCEPT !.pc = "huggingface", !.idx = j,
                       !.calls = Append(@, HuggingFaceCall(j, order[j]))]
        ELSE [s EXCEPT !.pc = "gemini", !.idx = j,
                       !.calls = Append(@, GeminiCall)]

\* Lines 149-168: the response once the providers have been tried.
SummarizeRespond(s) ==
    IF ~Truthy(s.summary)
    THEN [s EXCEPT !.pc = "done", !.response = AllUnavailable]
    ELSE [s EXCEPT !.pc = "done", !.response = SummarizationResult(s.text, s.summary)]

SummarizeInvalidLongerAccepted(text) ==
    IF ~Truthy(text) \/ text.t # "string"
    THEN "Text is required and must be a string"
    ELSE IF text.len < MinTextLength
    THEN "Text must be at least 50 characters long"
    ELSE IF text.len > MaxTextLength + 1
    THEN "Text is too long. Maximum 10,000 characters allowed."
    ELSE ""

\* Lines 109-128: the error the validation of the text answers with, "" for
\* a text it accepts.
SummarizeInvalid(text) ==
    IF ~Truthy(text) \/ text.t # "string"
    THEN "Text is required and must be a string"
    ELSE IF text.len < MinTextLength
    THEN "Text must be at least 50 characters long"
    ELSE IF text.len > MaxTextLength
    THEN "Text is too long. Maximum 10,000 characters allowed."
    ELSE ""

\* Lines 105-137: a request arrives, is validated, and the first candidate
\* is called. The route keeps nothing from one request to the next, so a
\* behaviour is the handling of one request.
SummarizePOST(text, model) ==
    /\ summarize.pc = "idle"
    /\ LET s == [SummarizeIdle EXCEPT !.parsed = TRUE, !.text = text,
                                      !.model = DefaultModel(model)]
       IN  summarize' =
             IF SummarizeInvalid(text) # ""
             THEN [s EXCEPT !.pc = "done", !.response =
                     JsonResponse(400, ErrorBody(SummarizeInvalid(text)))]
             ELSE SummarizeContinue(s, 0)
    /\ UNCHANGED exceptSummarize

\* Lines 106, 170-176: the body of the request is not a JSON object (not
\* JSON, or null): req.json() or the destructuring of its value throws.
SummarizeBadBody ==
    /\ summarize.pc = "idle"
    /\ summarize' = [SummarizeIdle EXCEPT !.pc = "done", !.response =
                       JsonResponse(500, ErrorBody("Server error: Unexpected token"))]
    /\ UNCHANGED exceptSummarize

LoopNeverBreaks(summary) == FALSE

\* Lines 138-140: if (summary) break
LoopBreaks(summary) == Truthy(summary)

\* Lines 137-147: the awaited Hugging Face call returns.
HuggingFaceReturns(fetched) ==
    /\ summarize.pc = "huggingface"
    /\ HostedModel(summarize.calls[Len(summarize.calls)].model) \/ fetched.fetch # "ok"
    /\ LET summary == tryHuggingFaceSummarization(fetched)
           s == [summarize EXCEPT !.summary = summary, !.results = Append(@, summary)]
       IN  summarize' = IF LoopBreaks(summary) THEN SummarizeRespond(s)
                        ELSE SummarizeContinue(s, s.idx)
    /\ UNCHANGED exceptSummarize

GeminiReturnsRetries(generated) ==
    /\ summarize.pc = "gemini"
    /\ LET summary == tryGeminiSummarization(generated)
           s == [summarize EXCEPT !.summary = summary, !.results = Append(@, summary)]
       IN  summarize' = IF ~Truthy(summary) /\ Len(s.calls) < 5
                        THEN [s EXCEPT !.calls = Append(@, GeminiCall)]
                        ELSE SummarizeRespond(s)
    /\ UNCHANGED exceptSummarize

\* Lines 146-168: the awaited Gemini call returns.
GeminiReturns(generated) ==
    /\ summarize.pc = "gemini"
    /\ LET summary == tryGeminiSummarization(generated)
           s == [summarize EXCEPT !.summary = summary, !.results = Append(@, summary)]
       IN  summarize' = SummarizeRespond(s)
    /\ UNCHANGED exceptSummarize

\* The summarization route reads two of the three credentials.
NextSummarize ==
    \/ \E text \in RequestTexts, model \in RequestModels : SummarizePOST(text, model)
    \/ SummarizeBadBody
    \/ \E f \in HuggingFaceFetches(CandidateId(summarize.idx)) : HuggingFaceReturns(f)
    \/ \E g \in GeminiGenerations : GeminiReturns(g)

-----------------------------------------------------------------------------
(* Classification route *)

\* HUGGINGFACE_CLASSIFICATION_MODELS[key]
HUGGINGFACE_CLASSIFICATION_MODELS(key) ==
    CASE key = "sentiment-analysis" -> "cardiffnlp/twitter-roberta-base-sentiment-latest"
      [] key = "topic-classification" -> "facebook/bart-large-mnli"
      [] key = "emotion-detection" -> "joeddav/distilbert-base-uncased-go-emotions-student"
      [] OTHER -> "undefined"

\* The model field of a request body: omitted, a known key, an unknown key.
ClassifyModels ==
    {"(omitted)", "sentiment-analysis", "topic-classification", "emotion-detection", "gpt-4"}

Label(name) == JsString(name, 8, 1, 0)

\* The customLabels field: omitted, an array of labels, or a string.
CustomLabels ==
    {Undefined, JsArray(<<Label("sports"), Label("politics")>>), Label("sports,politics")}

ClassifyTexts ==
    {Undefined, JsNumber(42), JsString("request", 0, 0, 0), JsString("request", 60, 10, 0)}

LabelScore(name, score) == JsObject([label |-> Label(name), score |-> score])

\* The JSON values a provider answers with: the list of label/score lists of
\* the text-classification models, the labels/scores object of the zero-shot
\* model, the label/score object the Gemini prompts ask for, and values of
\* other shapes.
ClassificationBodies ==
    { JsArray(<<JsArray(<<LabelScore("positive", JsRatio(995, 1000)),
                          LabelScore("negative", JsRatio(5, 1000))>>)>>),
      JsArray(<<LabelScore("positive", JsRatio(995, 1000)),
                LabelScore("negative", JsRatio(5, 1000))>>),
      LabelScore("positive", JsRatio(99, 100)),
      JsObject([sequence |-> Label("text"),
                labels |-> JsArray(<<Label("sports"), Label("politics")>>),
                scores |-> JsArray(<<JsRatio(875, 1000), JsRatio(125, 1000)>>)]),
      JsObject([labels |-> JsArray(<<Label("sports")>>),
                scores |-> JsArray(<<JsRatio(1, 1)>>)]),
      JsObject([labels |-> JsArray(<<Label("sports")>>)]),
      JsObject([error |-> Label("loading")]),
      JsArray(<<>>),
      JsArray(<<Null>>),
      Label("positive"),
      JsNumber(1),
      JsNumber(0),
      JsString("empty", 0, 0, 0),
      Null }

ClassificationFetches ==
    {[fetch |-> "rejected"], [fetch |-> "not_ok"], [fetch |-> "invalid_json"]}
        \cup {[fetch |-> "ok", json |-> b] : b \in ClassificationBodies}

\* The text generateContent answers with: JSON or prose, bare or in a
\* markdown code fence opened by wrap.
NotJson == [t |-> "prose"]
Fences == {"none", "fence-json", "fence", "fence-JSON"}

GeminiClassifications ==
    {[generate |-> "rejected"]}
        \cup {[generate |-> "ok", wrap |-> w, content |-> c] :
                w \in Fences, c \in ClassificationBodies \cup {NotJson}}

\* JSON.parse of the text with the fence pattern of line 93 removed: the
\* pattern takes away a fence and a fence followed by json and a newline;
\* what another opening (JSON in capitals) leaves before the content is not
\* JSON.
ParseFenced(generated) ==
    IF generated.wrap = "fence-JSON" \/ generated.content = NotJson THEN Throw
    ELSE generated.content

\* callHuggingFaceClassificationAPI (lines 20-49) under the try of
\* tryHuggingFaceClassification (lines 51-64): the parsed body, or null.
tryHuggingFaceClassification(fetched) ==
    IF NotConfigured(env.HUGGINGFACE_API_TOKEN) THEN Null
    ELSE IF fetched.fetch # "ok" THEN Null
    ELSE fetched.json

\* tryGeminiClassification up to its await (lines 73-91): TRUE when
\* generateContent is called, FALSE when the function returns null before.
GeminiClassificationCalled(model, customLabels) ==
    /\ ~NotConfigured(env.GOOGLE_GEMINI_API_KEY)
    /\ \/ model = "sentiment-analysis"
       \/ model = "topic-classification" /\ Truthy(customLabels)
              /\ customLabels.t = "array"        \* customLabels.join
       \/ model = "emotion-detection"

\* tryGeminiClassification after its await (lines 91-99)
tryGeminiClassification(generated) ==
    IF generated.generate # "ok" THEN Null
    ELSE IF ParseFenced(generated) = Throw THEN Null
    ELSE ParseFenced(generated)

\* c => ({ name: c.label, score: Math.round(c.score * 100) })
Category(c) ==
    IF Nullish(c) THEN Throw
    ELSE [name |-> Prop(c, "label"), score |-> MathRound100(Prop(c, "score"))]

Categories(items) == [i \in 1 .. Len(items) |-> Category(items[i])]

\* Lines 131-137 and 147-153: the sentiment and emotion branches.
NormalizeTopResult(result) ==
    LET first == Elem(result, 0)
        topResult == IF result.t = "array" THEN Elem(first, 0) ELSE first
    IN  IF topResult = Throw \/ Nullish(topResult) THEN Throw
        ELSE IF result.t # "array" THEN Throw      \* result.flat is not a function
        ELSE LET categories == Categories(Flat(result.items))
             IN  IF \E i \in DOMAIN categories : categories[i] = Throw THEN Throw
                 ELSE [label |-> Prop(topResult, "label"),
                       confidence |-> MathRound100(Prop(topResult, "score")),
                       categories |-> categories]

\* Lines 138-146: the topic branch.
NormalizeTopic(result) ==
    LET labels == Prop(result, "labels")
        scores == Prop(result, "scores")
    IN  IF Nullish(labels) \/ Nullish(scores) THEN Throw
        ELSE IF labels.t # "array" THEN Throw       \* labels.map is not a function
        ELSE [label |-> Elem(labels, 0),
              confidence |-> MathRound100(Elem(scores, 0)),
              categories |-> [i \in 1 .. Len(labels.items) |->
                                [name |-> labels.items[i],
                                 score |-> MathRound100(Elem(scores, i - 1))]]]

\* Lines 129-156
Normalize(model, result) ==
    IF model = "topic-classification" THEN NormalizeTopic(result)
    ELSE NormalizeTopResult(result)

ClassifyIdle ==
    [pc |-> "idle", parsed |-> FALSE, text |-> Undefined, model |-> "(omitted)",
     customLabels |-> Undefined,
     result |-> Null, calls |-> <<>>, results |-> <<>>, response |-> NoResponse]

ClassifyRespondAlways503(c) ==
    IF ~Truthy(c.result) \/ Normalize(c.model, c.result) = Throw
    THEN [c EXCEPT !.pc = "done", !.response =
            JsonResponse(503, ErrorBody("All classification services are currently unavailable."))]
    ELSE [c EXCEPT !.pc = "done", !.response =
            JsonResponse(200, [success |-> TRUE, data |-> Normalize(c.model, c.result)])]

\* Lines 122-164: the response once the providers have been tried.
ClassifyRespond(c) ==
    IF ~Truthy(c.result)
    THEN [c EXCEPT !.pc = "done", !.response =
            JsonResponse(503, ErrorBody("All classification services are currently unavailable."))]
    ELSE IF Normalize(c.model, c.result) = Throw
    THEN [c EXCEPT !.pc = "done", !.response =
            JsonResponse(500, ErrorBody("Server error: Cannot read properties of undefined"))]
    ELSE [c EXCEPT !.pc = "done", !.response =
            JsonResponse(200, [success |-> TRUE, data |-> Normalize(c.model, c.result)])]

\* Lines 104-115: a request arrives, is validated, and Hugging Face is called.
ClassifyPOST(text, model, customLabels) ==
    /\ classify.pc = "idle"
    /\ LET c == [ClassifyIdle EXCEPT !.text = text, !.model = model,
                                     !.customLabels = customLabels]
       IN  classify' =
             IF ~Truthy(text) \/ text.t # "string" \/ model = "(omitted)"
             THEN [c EXCEPT !.pc = "done", !.parsed = TRUE, !.response =
                     JsonResponse(400, ErrorBody("Invalid request body"))]
             ELSE [c EXCEPT !.pc = "huggingface", !.parsed = TRUE, !.calls =
                     <<[fn |-> "tryHuggingFaceClassification", key |-> model,
                        model |-> HUGGINGFACE_CLASSIFICATION_MODELS(model),
                        remote |-> ~NotConfigured(env.HUGGINGFACE_API_TOKEN)]>>]
    /\ UNCHANGED exceptClassify

\* Lines 106, 158-164: the body of the request is not a JSON object:
\* req.json() or the destructuring of its value throws.
ClassifyBadBody ==
    /\ classify.pc = "idle"
    /\ classify' = [ClassifyIdle EXCEPT !.pc = "done", !.response =
                      JsonResponse(500, ErrorBody("Server error: Unexpected token"))]
    /\ UNCHANGED exceptClassify

\* Lines 115-120: the awaited Hugging Face call returns; without a result
\* Gemini is tried, and the request is answered at once when Gemini is not
\* called.
ClassifyHuggingFaceReturns(fetched) ==
    /\ classify.pc = "huggingface"
    /\ HostedModel(classify.calls[1].model) \/ fetched.fetch # "ok"
    /\ LET result == tryHuggingFaceClassification(fetched)
           called == GeminiClassificationCalled(classify.model, classify.customLabels)
           c == [classify EXCEPT !.result = result, !.results = Append(@, result)]
       IN  classify' =
             IF Truthy(result) THEN ClassifyRespond(c)
             ELSE IF called
             THEN [c EXCEPT !.pc = "gemini", !.calls = Append(@,
                     [fn |-> "tryGeminiClassification", key |-> "gemini",
                      model |-> "gemini-1.5-flash", remote |-> TRUE])]
             ELSE ClassifyRespond(
                    [c EXCEPT !.results = Append(@, Null), !.calls = Append(@,
                       [fn |-> "tryGeminiClassification", key |-> "gemini",
                        model |-> "gemini-1.5-flash", remote |-> FALSE])])
    /\ UNCHANGED exceptClassify

\* Lines 119-156: the awaited Gemini call returns.
ClassifyGeminiReturns(generated) ==
    /\ classify.pc = "gemini"
    /\ LET result == tryGeminiClassification(generated)
       IN  classify' = ClassifyRespond(
                         [classify EXCEPT !.result = result, !.results = Append(@, result)])
    /\ UNCHANGED exceptClassify

NextClassify ==
    \/ \E text \in ClassifyTexts, model \in ClassifyModels, labels \in CustomLabels :
          ClassifyPOST(text, model, labels)
    \/ ClassifyBadBody
    \/ \E f \in ClassificationFetches : ClassifyHuggingFaceReturns(f)
    \/ \E g \in GeminiClassifications : ClassifyGeminiReturns(g)

-----------------------------------------------------------------------------
(* Q&A route, the second POST of summarize/route.ts *)

\* new Response(text, { status }): a response whose body is plain text.
PlainResponse(status, text) == [status |-> status, type |-> "text", body |-> text]

\* The question and the context of a request body.
QnaQuestions ==
    {Undefined, JsNumber(42), JsString("question", 0, 0, 0), JsString("question", 20, 4, 0)}
QnaContexts == {"(omitted)", "context"}

QnaIdle ==
    [pc |-> "idle", question |-> Undefined, context |-> "",
     chatCalled |-> FALSE, response |-> NoResponse]

\* Lines 212-224: a request arrives; the question and the credential are
\* checked, and the chain is invoked.
QnaPOST(question, context) ==
    /\ qna.pc = "idle"
    /\ LET q == [QnaIdle EXCEPT !.question = question,
                                !.context = IF context = "(omitted)" THEN "" ELSE context]
       IN  qna' =
             IF ~Truthy(question) \/ question.t # "string"
             THEN [q EXCEPT !.pc = "done", !.response =
                     JsonResponse(400, ErrorBody("Question is required"))]
             ELSE IF NotConfigured(env.OPENROUTER_API_KEY)
             THEN [q EXCEPT !.pc = "done", !.response =
                     PlainResponse(400, "OpenRouter API key not configured")]
             ELSE [q EXCEPT !.pc = "asking", !.chatCalled = TRUE]
    /\ UNCHANGED exceptQna

\* Lines 214, 235-241: the body of the request is not a JSON object.
QnaBadBody ==
    /\ qna.pc = "idle"
    /\ qna' = [QnaIdle EXCEPT !.pc = "done", !.response =
                 JsonResponse(500, ErrorBody("Server error: Unexpected token"))]
    /\ UNCHANGED exceptQna

\* Lines 224-241: the chat completion arrives, or fails (ok).
QnaAnswered(ok) ==
    /\ qna.pc = "asking"
    /\ qna' = [qna EXCEPT !.pc = "done", !.response =
                 IF ok
                 THEN JsonResponse(200,
                        [success |-> TRUE,
                         data |-> [question |-> qna.question, answer |-> "answer",
                                   context |-> qna.context, confidence |-> 95]])
                 ELSE JsonResponse(500, ErrorBody("Server error: chat completion failed"))]
    /\ UNCHANGED exceptQna

NextQna ==
    \/ \E question \in QnaQuestions, context \in QnaContexts : QnaPOST(question, context)
    \/ QnaBadBody
    \/ \E ok \in BOOLEAN : QnaAnswered(ok)

-----------------------------------------------------------------------------
(* Document route: the process-wide vector store *)

\* The chunks of the largest file, and the files ingested between two clears.
MaxChunks == 1
MaxDocuments == 2

\* The requests the route has at an await at a time: a race of the route
\* is between two of them.
Requests == {"first", "second"}

\* A MemoryVectorStore is created by an upload and lives as long as the
\* module variable or a request in flight refers to it.
StoreIds == 1 .. Cardinality(Requests) + 1

\* The uploaded file: its name, its declared type, and the number of chunks
\* the splitter makes of its text (none for an empty text).
File(name, type, chunks) == [name |-> name, type |-> type, chunks |-> chunks]
Files ==
    {File("empty.txt", "text/plain", 0), File("a.txt", "text/plain", 1),
     File("b.pdf", "application/pdf", MaxChunks), File("c.png", "image/png", 0)}
NoFile == [name |-> "", type |-> "", chunks |-> 0]

\* extractTextFromFile (lines 204-219): the types it reads.
SupportedType(type) ==
    type \in {"application/pdf",
              "application/vnd.openxmlformats-officedocument.wordprocessingml.document",
              "text/plain"}

\* What memoryVectors gets of one file: its chunks, pushed together.
Batch(name, chunks) == [name |-> name, chunks |-> chunks]

\* A request of the route at an await. target is the store the request took
\* from vectorStore before the await (0: none, the upload creates one);
\* embedCalled and chatCalled say whether the request has called the
\* embedding and the chat-completion capability; nonEmpty, whether the
\* store held a chunk when the request, a query, arrived.
RagIdle ==
    [kind |-> "none", pc |-> "idle", name |-> "", chunks |-> 0, target |-> 0,
     embedCalled |-> FALSE, chatCalled |-> FALSE, nonEmpty |-> FALSE]

\* ragResponse after a step that sends no response.
NoRagResponse ==
    [request |-> RagIdle, status |-> 0, type |-> "none", body |-> ErrorBody("")]

RagStart ==
    /\ vectorStore = 0
    /\ stores = [id \in StoreIds |-> <<>>]
    /\ documentCount = 0
    /\ rag = [r \in Requests |-> RagIdle]
    /\ ragResponse = NoRagResponse
    /\ uploaded = <<>>

\* Response.json of the route, with the request it answers.
RagResponse(request, status, body) ==
    [request |-> [request EXCEPT !.pc = "done", !.target = 0],
     status |-> status, type |-> "json", body |-> body]

\* Lines 360-365: the catch of the route.
ServerError(request, message) ==
    RagResponse(request, 500, ErrorBody(message))

\* Lines 217, 363: the error of a type extractTextFromFile does not read, as
\* the catch of the route words it.
UnsupportedMediaType ==
    "Server error: Unsupported file type. Please upload PDF, DOCX, or TXT files."

\* The stores something still refers to.
Live(vs, requests) == ({vs} \cup {requests[r].target : r \in Requests}) \ {0}

\* The stores nothing refers to any more are gone.
Collect(st, vs, requests) ==
    [id \in StoreIds |-> IF id \in Live(vs, requests) THEN st[id] ELSE <<>>]

\* The number of chunks in a store.
RECURSIVE ChunkCount(_)
ChunkCount(batches) ==
    IF batches = <<>> THEN 0 ELSE Head(batches).chunks + ChunkCount(Tail(batches))

Uploading == {r \in Requests : rag[r].kind = "upload"}

\* Lines 303-315, 204-243: an upload up to the await of the embeddings. The
\* file is read (readable: the PDF parser accepts it), split, and the chunks
\* go to the embedding capability, for a new store when vectorStore is null
\* and for the store vectorStore refers to otherwise. Without a credential
\* the embeddings client throws when it is made (strict) or when it is used,
\* as the version of the library has it.
UploadPOST(r, file, readable, strict) ==
    /\ rag[r] = RagIdle
    /\ documentCount + Cardinality(Uploading) < MaxDocuments
    /\ LET request == [RagIdle EXCEPT !.kind = "upload"]
       IN  IF file = NoFile
           THEN /\ ragResponse' = RagResponse(request, 400, ErrorBody("No file uploaded"))
                /\ rag' = rag
           ELSE IF ~SupportedType(file.type)
           THEN /\ ragResponse' = ServerError(request,
                      "Server error: Unsupported file type. Please upload PDF, DOCX, or TXT files.")
                /\ rag' = rag
           ELSE IF ~readable
           THEN /\ ragResponse' = ServerError(request, "Server error: Invalid PDF structure")
                /\ rag' = rag
           ELSE IF env.OPENROUTER_API_KEY = "absent" /\ strict
           THEN /\ ragResponse' = ServerError(request, "Server error: OpenAI API key not found")
                /\ rag' = rag
           ELSE /\ rag' = [rag EXCEPT ![r] = [request EXCEPT
                              !.pc = "embedding", !.name = file.name,
                              !.chunks = file.chunks, !.target = vectorStore,
                              !.embedCalled = file.chunks > 0]]
                /\ ragResponse' = NoRagResponse
    /\ UNCHANGED <<vectorStore, stores, documentCount, uploaded, exceptRag>>

\* The smallest store nothing refers to.
NewStore == CHOOSE id \in StoreIds \ Live(vectorStore, rag) :
                \A other \in StoreIds \ Live(vectorStore, rag) : id <= other

UploadEmbeddedCountsChunks(r, ok) ==
    /\ rag[r].pc = "embedding"
    /\ ok => rag[r].chunks = 0 \/ env.OPENROUTER_API_KEY # "placeholder"
    /\ ~ok => rag[r].chunks > 0 \/ env.OPENROUTER_API_KEY = "absent"
    /\ LET request == rag[r]
           batch == Batch(request.name, request.chunks)
           id == IF request.target = 0 THEN NewStore ELSE request.target
           vs == IF ok /\ request.target = 0 THEN id ELSE vectorStore
           idle == [rag EXCEPT ![r] = RagIdle]
       IN  /\ rag' = idle
           /\ vectorStore' = vs
           /\ stores' = Collect(
                  IF ~ok THEN stores
                  ELSE IF request.target = 0 THEN [stores EXCEPT ![id] = <<batch>>]
                  ELSE [stores EXCEPT ![id] = Append(@, batch)],
                  vs, idle)
           /\ documentCount' = IF ok THEN documentCount + request.chunks ELSE documentCount
           /\ uploaded' = IF ok THEN Append(uploaded, batch) ELSE uploaded
           /\ ragResponse' =
                IF ~ok THEN ServerError(request, "Server error: embedding request failed")
                ELSE RagResponse(request, 200,
                        [success |-> TRUE,
                         data |-> [filename |-> request.name,
                                   chunkCount |-> request.chunks,
                                   totalDocuments |-> documentCount + request.chunks]])
    /\ UNCHANGED exceptRag

UploadEmbeddedKeepsPartial(r, ok) ==
    /\ rag[r].pc = "embedding"
    /\ ok => rag[r].chunks = 0 \/ env.OPENROUTER_API_KEY # "placeholder"
    /\ ~ok => rag[r].chunks > 0 \/ env.OPENROUTER_API_KEY = "absent"
    /\ LET request == rag[r]
           batch == Batch(request.name, IF ok THEN request.chunks ELSE request.chunks - 1)
           id == IF request.target = 0 THEN NewStore ELSE request.target
           vs == IF request.target = 0 THEN id ELSE vectorStore
           idle == [rag EXCEPT ![r] = RagIdle]
       IN  /\ rag' = idle
           /\ vectorStore' = vs
           /\ stores' = Collect(
                  IF request.target = 0 THEN [stores EXCEPT ![id] = <<batch>>]
                  ELSE [stores EXCEPT ![id] = Append(@, batch)],
                  vs, idle)
           /\ documentCount' = IF ok THEN documentCount + 1 ELSE documentCount
           /\ uploaded' = IF ok THEN Append(uploaded, batch) ELSE uploaded
           /\ ragResponse' =
                IF ~ok THEN ServerError(request, "Server error: embedding request failed")
                ELSE RagResponse(request, 200,
                        [success |-> TRUE,
                         data |-> [filename |-> request.name,
                                   chunkCount |-> request.chunks,
                                   totalDocuments |-> documentCount + 1]])
    /\ UNCHANGED exceptRag

\* Lines 238-246, 315-325: the embeddings of an upload arrive, or the
\* embedding capability fails (ok). The library embeds every chunk before it
\* adds any: with all embedded, a new store holding them is assigned to
\* vectorStore, or they are pushed onto the store taken before the await;
\* then documentCount is incremented and the request answered. A failure
\* leaves everything as it is. A file without chunks needs no embedding; a
\* placeholder credential is refused by the capability; without the
\* credential the client of the library uses OPENAI_API_KEY, if there is one.
UploadEmbedded(r, ok) ==
    /\ rag[r].pc = "embedding"
    /\ ok => rag[r].chunks = 0 \/ env.OPENROUTER_API_KEY # "placeholder"
    /\ ~ok => rag[r].chunks > 0 \/ env.OPENROUTER_API_KEY = "absent"
    /\ LET request == rag[r]
           batch == Batch(request.name, request.chunks)
           id == IF request.target = 0 THEN NewStore ELSE request.target
           vs == IF ok /\ request.target = 0 THEN id ELSE vectorStore
           idle == [rag EXCEPT ![r] = RagIdle]
       IN  /\ rag' = idle
           /\ vectorStore' = vs
           /\ stores' = Collect(
                  IF ~ok THEN stores
                  ELSE IF request.target = 0 THEN [stores EXCEPT ![id] = <<batch>>]
                  ELSE [stores EXCEPT ![id] = Append(@, batch)],
                  vs, idle)
           /\ documentCount' = IF ok THEN documentCount + 1 ELSE documentCount
           /\ uploaded' = IF ok THEN Append(uploaded, batch) ELSE uploaded
           /\ ragResponse' =
                IF ~ok THEN ServerError(request, "Server error: embedding request failed")
                ELSE RagResponse(request, 200,
                        [success |-> TRUE,
                         data |-> [filename |-> request.name,
                                   chunkCount |-> request.chunks,
                                   totalDocuments |-> documentCount + 1]])
    /\ UNCHANGED exceptRag

\* Lines 327-328: a query arrives; its body is awaited.
QueryPOST(r) ==
    /\ rag[r] = RagIdle
    /\ rag' = [rag EXCEPT ![r] = [RagIdle EXCEPT
                      !.kind = "query", !.pc = "json",
                      !.nonEmpty = vectorStore # 0 /\ ChunkCount(stores[vectorStore]) > 0]]
    /\ ragResponse' = NoRagResponse
    /\ UNCHANGED <<vectorStore, stores, documentCount, uploaded, exceptRag>>

\* The question field of a query: missing, empty, not a string, or a string.
Questions ==
    {Undefined, JsNumber(42), JsString("question", 0, 0, 0), JsString("question", 20, 4, 0)}

QueryParsedIsolated(r, question) ==
    /\ rag[r].pc = "json"
    /\ LET request == rag[r]
           idle == [rag EXCEPT ![r] = RagIdle]
       IN  IF ~Truthy(question) \/ question.t # "string"
           THEN /\ ragResponse' = RagResponse(request, 400, ErrorBody("Question is required"))
                /\ rag' = idle
           ELSE IF ~rag[r].nonEmpty
           THEN /\ ragResponse' = ServerError(request,
                      "Server error: No documents have been uploaded yet.")
                /\ rag' = idle
           ELSE IF NotConfigured(env.OPENROUTER_API_KEY)
           THEN /\ ragResponse' = ServerError(request,
                      "Server error: OpenRouter API key not configured")
                /\ rag' = idle
           ELSE /\ rag' = [rag EXCEPT ![r] = [request EXCEPT
                              !.pc = "retrieving", !.target = vectorStore,
                              !.embedCalled = TRUE, !.nonEmpty = FALSE]]
                /\ ragResponse' = NoRagResponse
    /\ stores' = Collect(stores, vectorStore, rag')
    /\ UNCHANGED <<vectorStore, documentCount, uploaded, exceptRag>>

\* Lines 330-335, 251-292: the body of a query is there. The question is
\* validated, queryDocuments checks the store and the credential, and the
\* chain is invoked: its retriever embeds the question.
QueryParsed(r, question) ==
    /\ rag[r].pc = "json"
    /\ LET request == rag[r]
           idle == [rag EXCEPT ![r] = RagIdle]
       IN  IF ~Truthy(question) \/ question.t # "string"
           THEN /\ ragResponse' = RagResponse(request, 400, ErrorBody("Question is required"))
                /\ rag' = idle
           ELSE IF vectorStore = 0
           THEN /\ ragResponse' = ServerError(request,
                      "Server error: No documents have been uploaded yet.")
                /\ rag' = idle
           ELSE IF NotConfigured(env.OPENROUTER_API_KEY)
           THEN /\ ragResponse' = ServerError(request,
                      "Server error: OpenRouter API key not configured")
                /\ rag' = idle
           ELSE /\ rag' = [rag EXCEPT ![r] = [request EXCEPT
                              !.pc = "retrieving", !.target = vectorStore,
                              !.embedCalled = TRUE, !.nonEmpty = FALSE]]
                /\ ragResponse' = NoRagResponse
    /\ stores' = Collect(stores, vectorStore, rag')
    /\ UNCHANGED <<vectorStore, documentCount, uploaded, exceptRag>>

\* Lines 283-292: the embedding of the question arrives (or fails); the
\* retriever searches the store it was made of, and the prompt goes to the
\* chat-completion capability.
QueryRetrieved(r, ok) ==
    /\ rag[r].pc = "retrieving"
    /\ IF ok
       THEN /\ rag' = [rag EXCEPT ![r].pc = "answering", ![r].chatCalled = TRUE]
            /\ ragResponse' = NoRagResponse
       ELSE /\ rag' = [rag EXCEPT ![r] = RagIdle]
            /\ ragResponse' = ServerError(rag[r], "Server error: embedding request failed")
    /\ stores' = Collect(stores, vectorStore, rag')
    /\ UNCHANGED <<vectorStore, documentCount, uploaded, exceptRag>>

\* Lines 292-293, 335-344: the chat completion arrives (or fails) and the
\* query is answered, with documentCount as it is now.
QueryAnswered(r, ok) ==
    /\ rag[r].pc = "answering"
    /\ rag' = [rag EXCEPT ![r] = RagIdle]
    /\ ragResponse' =
          IF ok
          THEN RagResponse(rag[r], 200,
                  [success |-> TRUE,
                   data |-> [answer |-> "answer", totalDocuments |-> documentCount]])
          ELSE ServerError(rag[r], "Server error: chat completion failed")
    /\ stores' = Collect(stores, vectorStore, rag')
    /\ UNCHANGED <<vectorStore, documentCount, uploaded, exceptRag>>

\* Lines 346-354: clear.
ClearPOST ==
    /\ vectorStore' = 0
    /\ documentCount' = 0
    /\ stores' = Collect(stores, 0, rag)
    /\ uploaded' = <<>>
    /\ ragResponse' = RagResponse([RagIdle EXCEPT !.kind = "clear"], 200,
          [success |-> TRUE, data |-> [message |-> "All documents cleared from memory."]])
    /\ UNCHANGED <<rag, exceptRag>>

\* Lines 356-358: another action parameter.
InvalidActionPOST ==
    /\ ragResponse' = RagResponse([RagIdle EXCEPT !.kind = "invalid"], 400,
          ErrorBody("Invalid action"))
    /\ UNCHANGED <<vectorStore, stores, documentCount, rag, uploaded, exceptRag>>

\* Lines 369-378: the status.
StatusGET ==
    /\ ragResponse' = RagResponse([RagIdle EXCEPT !.kind = "status"], 200,
          [success |-> TRUE,
           data |-> [totalDocuments |-> documentCount, hasDocuments |-> vectorStore # 0]])
    /\ UNCHANGED <<vectorStore, stores, documentCount, rag, uploaded, exceptRag>>

\* The requests that are not a clear.
NextUploads ==
    \/ \E r \in Requests, file \in Files \cup {NoFile}, readable, strict \in BOOLEAN :
          UploadPOST(r, file, readable, strict)
    \/ \E r \in Requests, ok \in BOOLEAN : UploadEmbedded(r, ok)
    \/ \E r \in Requests : QueryPOST(r)
    \/ \E r \in Requests, question \in Questions : QueryParsed(r, question)
    \/ \E r \in Requests, ok \in BOOLEAN : QueryRetrieved(r, ok)
    \/ \E r \in Requests, ok \in BOOLEAN : QueryAnswered(r, ok)
    \/ InvalidActionPOST
    \/ StatusGET

NextRag == NextUploads \/ ClearPOST

-----------------------------------------------------------------------------
(* Enhanced chat route: session memories and the response stream *)

\* The chunks the model streams in flight have yielded, and the turns a
\* memory holds.
MaxFragments == 2
MaxTurns == 2

\* The requests the route has at an await at a time.
Chats == {"first", "second"}

\* The text of a chunk: its characters, of which e-acute takes two bytes.
JsText(chars) == [t |-> "text", chars |-> chars]

\* Line 162: TextEncoder.encode, the UTF-8 bytes of a text.
Utf8(char) ==
    CASE char = "a" -> <<97>>
      [] char = "e-acute" -> <<195, 169>>

RECURSIVE TextEncoderEncode(_)
TextEncoderEncode(chars) ==
    IF chars = <<>> THEN <<>>
    ELSE Utf8(Head(chars)) \o TextEncoderEncode(Tail(chars))

\* chunk.response of the chunks a model stream yields: missing, empty, or
\* a text.
ChunkResponses ==
    {Undefined, JsText(<<>>), JsText(<<"a", "e-acute">>)}

\* Lines 20-97: AI_PERSONAS[persona]. The name of every persona begins
\* with an emoji, a character no header value can hold.
AI_PERSONAS(persona) ==
    CASE persona = "developer" -> [name |-> "Developer Assistant", emoji |-> TRUE]
      [] persona = "creative" -> [name |-> "Creative Assistant", emoji |-> TRUE]
      [] persona = "analyst" -> [name |-> "Business Analyst", emoji |-> TRUE]
      [] persona = "general" -> [name |-> "AI Assistant", emoji |-> TRUE]
      [] OTHER -> [name |-> "undefined", emoji |-> FALSE]

Personas == {"developer", "creative", "analyst", "general"}

\* The fields of a request body, "(omitted)" for a field that is not there.
ChatPersonas == {"(omitted)", "developer", "pirate"}
ChatSessionIds == {"(omitted)", "default", "alice"}
ChatMessages == {"(omitted)", "string", "empty", "one"}

\* Line 126: the defaults of the destructuring.
PersonaOf(persona) == IF persona = "(omitted)" THEN "general" ELSE persona
SessionOf(sessionId) == IF sessionId = "(omitted)" THEN "default" ELSE sessionId

SessionKeys == {SessionOf(sessionId) : sessionId \in ChatSessionIds}
MemoryIds == 1 .. Cardinality(SessionKeys)

\* A request of the route at an await, and the stream it has made: the
\* calls on the controller of the stream, and the state of the stream.
ChatIdle ==
    [pc |-> "idle", sessionId |-> "", persona |-> "", memory |-> 0,
     history |-> <<>>, produced |-> <<>>, saved |-> FALSE,
     calls |-> <<>>, state |-> "none", status |-> 0, disconnected |-> FALSE]

NoChatResponse ==
    [request |-> ChatIdle, status |-> 0, type |-> "none", body |-> ""]

\* new Response(text, { status }): a plain-text response.
TextResponse(status, body) ==
    [request |-> ChatIdle, status |-> status, type |-> "text/plain", body |-> body]

\* Lines 156-183: new Response(new ReadableStream(...), { headers }), the
\* response whose body is the stream.
StreamResponse ==
    [request |-> ChatIdle, status |-> 200, type |-> "text/plain", body |-> "ReadableStream"]

ChatStart ==
    /\ conversationMemories = [key \in SessionKeys |-> 0]
    /\ memories = [id \in MemoryIds |-> <<>>]
    /\ chat = [c \in Chats |-> ChatIdle]
    /\ chatResponse = NoChatResponse

\* new ConversationSummaryBufferMemory: an object the Map does not hold yet.
NewMemory(map) == Cardinality({key \in SessionKeys : map[key] # 0}) + 1

getOrCreateMemoryShared(map, sessionId) ==
    IF map[sessionId] # 0 THEN map
    ELSE IF \E key \in SessionKeys : map[key] # 0
    THEN [map EXCEPT ![sessionId] = map[CHOOSE key \in SessionKeys : map[key] # 0]]
    ELSE [map EXCEPT ![sessionId] = NewMemory(map)]

getOrCreateMemoryReplaces(map, sessionId) ==
    IF map[sessionId] = 0
    THEN [map EXCEPT ![sessionId] = NewMemory(map)]
    ELSE [map EXCEPT ![sessionId] = (@ % Cardinality(SessionKeys)) + 1]

\* Lines 111-121: the Map after getOrCreateMemory(sessionId); the memory
\* returned is the entry of sessionId.
getOrCreateMemory(map, sessionId) ==
    IF map[sessionId] = 0
    THEN [map EXCEPT ![sessionId] = NewMemory(map)]
    ELSE map

\* The turn a chain saves to its memory.
Turn(sessionId) == [sessionId |-> sessionId, input |-> "hello"]

\* The requests in flight whose chain has not saved its turn yet.
Pending(sessionId) ==
    {c \in Chats : chat[c].pc # "idle" /\ chat[c].sessionId = sessionId /\ ~chat[c].saved}

ChatPOSTMemoryOfPersona(c, messages, persona, sessionId) ==
    /\ chat[c] = ChatIdle
    /\ LET key == IF PersonaOf(persona) = "developer" THEN "alice" ELSE SessionOf(sessionId)
           map == getOrCreateMemory(conversationMemories, key)
           request == [ChatIdle EXCEPT !.sessionId = SessionOf(sessionId), !.persona = PersonaOf(persona)]
       IN  /\ conversationMemories[key] # 0 =>
                 Len(memories[conversationMemories[key]]) + Cardinality(Pending(key)) < MaxTurns
           /\ IF NotConfigured(env.OPENROUTER_API_KEY)
              THEN /\ chatResponse' = TextResponse(400,
                         "OpenRouter API key not configured. Please add your API key to .env.local")
                   /\ UNCHANGED <<conversationMemories, chat>>
              ELSE IF messages \in {"(omitted)", "string"}
              THEN /\ chatResponse' = TextResponse(400, "Invalid messages format")
                   /\ UNCHANGED <<conversationMemories, chat>>
              ELSE IF PersonaOf(persona) \notin Personas
              THEN /\ conversationMemories' = map
                   /\ chatResponse' = TextResponse(500,
                         "Error: Cannot read properties of undefined (reading 'systemPrompt')")
                   /\ chat' = chat
              ELSE IF messages = "empty"
              THEN /\ conversationMemories' = map
                   /\ chatResponse' = TextResponse(500,
                         "Error: Cannot read properties of undefined (reading 'content')")
                   /\ chat' = chat
              ELSE /\ conversationMemories' = map
                   /\ chat' = [chat EXCEPT ![c] = [request EXCEPT
                          !.pc = "opening", !.memory = map[key],
                          !.history = memories[map[key]]]]
                   /\ chatResponse' = NoChatResponse
    /\ UNCHANGED <<memories, exceptChat>>

\* Lines 124-153: a request up to the await of chain.stream. The checks
\* answer 400 in plain text; the memory of the session is taken, or
\* created, before the prompt of the persona is made and the last message
\* read, which throw for an unknown persona and for no message; the chain
\* loads the history of its memory and calls the model.
ChatPOST(c, messages, persona, sessionId) ==
    /\ chat[c] = ChatIdle
    /\ LET key == SessionOf(sessionId)
           map == getOrCreateMemory(conversationMemories, key)
           request == [ChatIdle EXCEPT !.sessionId = key, !.persona = PersonaOf(persona)]
       IN  /\ conversationMemories[key] # 0 =>
                 Len(memories[conversationMemories[key]]) + Cardinality(Pending(key)) < MaxTurns
           /\ IF NotConfigured(env.OPENROUTER_API_KEY)
              THEN /\ chatResponse' = TextResponse(400,
                         "OpenRouter API key not configured. Please add your API key to .env.local")
                   /\ UNCHANGED <<conversationMemories, chat>>
              ELSE IF messages \in {"(omitted)", "string"}
              THEN /\ chatResponse' = TextResponse(400, "Invalid messages format")
                   /\ UNCHANGED <<conversationMemories, chat>>
              ELSE IF PersonaOf(persona) \notin Personas
              THEN /\ conversationMemories' = map
                   /\ chatResponse' = TextResponse(500,
                         "Error: Cannot read properties of undefined (reading 'systemPrompt')")
                   /\ chat' = chat
              ELSE IF messages = "empty"
              THEN /\ conversationMemories' = map
                   /\ chatResponse' = TextResponse(500,
                         "Error: Cannot read properties of undefined (reading 'content')")
                   /\ chat' = chat
              ELSE /\ conversationMemories' = map
                   /\ chat' = [chat EXCEPT ![c] = [request EXCEPT
                          !.pc = "opening", !.memory = map[key],
                          !.history = memories[map[key]]]]
                   /\ chatResponse' = NoChatResponse
    /\ UNCHANGED <<memories, exceptChat>>

\* Lines 151-184: chain.stream resolves, or rejects (ok). With the stream
\* of the chain there, the ReadableStream is made and its start begins to
\* read; then the Response is made, whose X-AI-Persona header is the name
\* of the persona: a name with an emoji is no header value, the
\* constructor throws, and the catch answers 500 while start reads on. The
\* persona and the history are of no use to the handler from here.
ChainOpens(c, ok) ==
    /\ chat[c].pc = "opening"
    /\ IF ~ok
       THEN /\ chat' = [chat EXCEPT ![c] = ChatIdle]
            /\ chatResponse' = TextResponse(500, "Error: model request failed")
       ELSE /\ chat' = [chat EXCEPT ![c].pc = "streaming", ![c].state = "readable",
                            ![c].status = IF AI_PERSONAS(chat[c].persona).emoji
                                          THEN 500 ELSE 200,
                            ![c].persona = "", ![c].history = <<>>]
            /\ chatResponse' = IF AI_PERSONAS(chat[c].persona).emoji
                               THEN TextResponse(500,
                                       "Error: Cannot convert argument to a ByteString")
                               ELSE StreamResponse
    /\ UNCHANGED <<conversationMemories, memories, exceptChat>>

\* A call on the controller of a stream: it takes effect on a readable
\* stream and throws on any other.
Call(op, bytes, state) == [op |-> op, bytes |-> bytes, ok |-> state = "readable"]

OnChunkClosesEach(s, chunk) ==
    IF Truthy(chunk) /\ chunk.chars # <<>>
    THEN IF s.state = "readable"
         THEN [s EXCEPT !.calls = @ \o <<Call("enqueue", TextEncoderEncode(chunk.chars), s.state),
                                         Call("close", <<>>, s.state)>>,
                        !.state = "closed"]
         ELSE [s EXCEPT !.calls = @ \o <<Call("enqueue", TextEncoderEncode(chunk.chars), s.state),
                                         Call("error", <<>>, s.state)>>,
                        !.pc = "caught"]
    ELSE s

\* Lines 160-164, 166-169: the body of the loop for a chunk. A chunk with
\* a response has its bytes enqueued; an enqueue that throws ends the loop
\* in the catch, which calls controller.error.
OnChunk(s, chunk) ==
    IF Truthy(chunk) /\ chunk.chars # <<>>
    THEN IF s.state = "readable"
         THEN [s EXCEPT !.calls = Append(@,
                            Call("enqueue", TextEncoderEncode(chunk.chars), s.state))]
         ELSE [s EXCEPT !.calls = @ \o <<Call("enqueue", TextEncoderEncode(chunk.chars), s.state),
                                         Call("error", <<>>, s.state)>>,
                        !.pc = "caught"]
    ELSE s

\* The exchange of a request whose stream is over: start has returned, and
\* no response is sent at this step.
StreamOver(c, s) ==
    /\ chat' = [chat EXCEPT ![c] = ChatIdle]
    /\ chatResponse' = [NoChatResponse EXCEPT
                            !.request = [s EXCEPT !.sessionId = "", !.memory = 0,
                                                  !.disconnected = FALSE]]

\* The chunks the streams in flight have yielded.
Fragments ==
    {ci \in Chats \X (1 .. MaxFragments) : ci[2] <= Len(chat[ci[1]].produced)}

\* Lines 160-164: the stream of the chain yields a chunk; with its last
\* chunk (last) the chain has saved the turn to its memory.
Produce(c, chunk, last) ==
    /\ chat[c].pc = "streaming"
    /\ ~chat[c].saved
    /\ Cardinality(Fragments) < MaxFragments
    /\ LET s == OnChunk([chat[c] EXCEPT !.produced = Append(@, chunk), !.saved = last],
                        chunk)
       IN  IF s.pc = "caught"
           THEN StreamOver(c, s)
           ELSE chat' = [chat EXCEPT ![c] = s] /\ chatResponse' = NoChatResponse
    /\ memories' = IF last
                   THEN [memories EXCEPT ![chat[c].memory] = Append(@, Turn(chat[c].sessionId))]
                   ELSE memories
    /\ UNCHANGED <<conversationMemories, exceptChat>>

\* Lines 165-169: the stream of the chain is done; controller.close(), and
\* controller.error in the catch should the close throw.
StreamDone(c) ==
    /\ chat[c].pc = "streaming"
    /\ chat[c].saved
    /\ LET s == chat[c]
       IN  StreamOver(c,
              IF s.state = "readable"
              THEN [s EXCEPT !.calls = Append(@, Call("close", <<>>, s.state)),
                             !.state = "closed", !.pc = "done"]
              ELSE [s EXCEPT !.calls = @ \o <<Call("close", <<>>, s.state),
                                              Call("error", <<>>, s.state)>>,
                             !.pc = "done"])
    /\ UNCHANGED <<conversationMemories, memories, exceptChat>>

StreamThrowsCloses(c) ==
    /\ chat[c].pc = "streaming"
    /\ ~chat[c].saved
    /\ LET s == chat[c]
       IN  StreamOver(c,
              [s EXCEPT !.calls = Append(@, Call("close", <<>>, s.state)),
                        !.state = IF s.state = "readable" THEN "closed" ELSE s.state,
                        !.pc = "failed"])
    /\ UNCHANGED <<conversationMemories, memories, exceptChat>>

\* Lines 166-169: the stream of the chain throws; controller.error(error).
StreamThrows(c) ==
    /\ chat[c].pc = "streaming"
    /\ ~chat[c].saved
    /\ LET s == chat[c]
       IN  StreamOver(c,
              [s EXCEPT !.calls = Append(@, Call("error", <<>>, s.state)),
                        !.state = IF s.state = "readable" THEN "errored" ELSE s.state,
                        !.pc = "failed"])
    /\ UNCHANGED <<conversationMemories, memories, exceptChat>>

\* Lines 125-184: the caller of a request in flight goes away. The handler
\* reads no abort signal of the request and its stream has no cancel
\* callback, so nothing of the handler runs; a stream that a response
\* carries is cancelled by the server, which closes it.
Disconnect(c) ==
    /\ chat[c].pc \in {"opening", "streaming"}
    /\ ~chat[c].disconnected
    /\ chat' = [chat EXCEPT ![c].disconnected = TRUE,
                            ![c].state = IF chat[c].status = 200 /\ @ = "readable"
                                         THEN "closed" ELSE @]
    /\ chatResponse' = NoChatResponse
    /\ UNCHANGED <<conversationMemories, memories, exceptChat>>

NextChat ==
    \/ \E c \in Chats, messages \in ChatMessages, persona \in ChatPersonas,
          sessionId \in ChatSessionIds : ChatPOST(c, messages, persona, sessionId)
    \/ \E c \in Chats, ok \in BOOLEAN : ChainOpens(c, ok)
    \/ \E c \in Chats, chunk \in ChunkResponses, last \in BOOLEAN : Produce(c, chunk, last)
    \/ \E c \in Chats : StreamDone(c)
    \/ \E c \in Chats : StreamThrows(c)
    \/ \E c \in Chats : Disconnect(c)

InitRag ==
    /\ env \in {e \in Env : e.HUGGINGFACE_API_TOKEN = "set" /\ e.GOOGLE_GEMINI_API_KEY = "set"}
    /\ summarize = SummarizeIdle
    /\ classify = ClassifyIdle
    /\ RagStart
    /\ ChatStart
    /\ qna = QnaIdle

\* The document route under every interleaving of its requests.
SpecRag == InitRag /\ [][NextRag]_vars

\* The document route while no clear is requested.
SpecUploads == InitRag /\ [][NextUploads]_vars

InitChat ==
    /\ env \in {e \in Env : e.HUGGINGFACE_API_TOKEN = "set" /\ e.GOOGLE_GEMINI_API_KEY = "set"}
    /\ summarize = SummarizeIdle
    /\ classify = ClassifyIdle
    /\ RagStart
    /\ ChatStart
    /\ qna = QnaIdle

\* The enhanced-chat route under every interleaving of its requests.
SpecChat == InitChat /\ [][NextChat]_vars

\* The requests that name one of the personas, or none.
NextPersonas ==
    \/ \E c \in Chats, messages \in ChatMessages, persona \in Personas \cup {"(omitted)"},
          sessionId \in ChatSessionIds : ChatPOST(c, messages, persona, sessionId)
    \/ \E c \in Chats, ok \in BOOLEAN : ChainOpens(c, ok)
    \/ \E c \in Chats, chunk \in ChunkResponses, last \in BOOLEAN : Produce(c, chunk, last)
    \/ \E c \in Chats : StreamDone(c)
    \/ \E c \in Chats : StreamThrows(c)

\* The enhanced-chat route while every request names a persona there is.
SpecPersonas == InitChat /\ [][NextPersonas]_vars

InitQna ==
    /\ env \in Env
    /\ summarize = SummarizeIdle
    /\ classify = ClassifyIdle
    /\ RagStart
    /\ ChatStart
    /\ qna = QnaIdle

\* The Q&A route: a behaviour is the handling of one request.
SpecQna == InitQna /\ [][NextQna]_vars

-----------------------------------------------------------------------------
(* The two routes with a fallback chain. Neither keeps anything from one   *)
(* request to the next: a behaviour is the handling of one request by one  *)
(* of them.                                                                *)

InitProviders ==
    /\ env \in {e \in Env : e.OPENROUTER_API_KEY = "set"}
    /\ summarize = SummarizeIdle
    /\ classify = ClassifyIdle
    /\ RagStart
    /\ ChatStart
    /\ qna = QnaIdle

NextProviders ==
    \/ classify.pc = "idle" /\ NextSummarize
    \/ summarize.pc = "idle" /\ NextClassify

SpecProviders == InitProviders /\ [][NextProviders]_vars

\* The requests and the answers of the providers that differ in what the
\* handlers do with them before they compute the result: their texts are
\* of at most MaxWords words with no whitespace around them.
Plain(strings) == {s \in strings : s.words <= MaxWords /\ s.ws = 0}

ArrivingTexts == (RequestTexts \ Strings("request", TextLengths))
                     \cup Plain(Strings("request", TextLengths))

ReturnedFetches(id) ==
    {[fetch |-> "rejected"], [fetch |-> "not_ok"], [fetch |-> "invalid_json"]}
        \cup {[fetch |-> "ok", json |-> b] : b \in
                 {JsArray(<<JsObject([summary_text |-> s])>>) : s \in Plain(ProviderTexts(id))}
                    \cup Plain(ProviderTexts(id)) \cup {JsArray(<<>>), Null}}

ReturnedGenerations ==
    {[generate |-> "rejected"]}
        \cup {[generate |-> "ok", text |-> s] : s \in Plain(ProviderTexts("gemini"))}

\* A request arrives at one of the two routes.
RequestArrives ==
    \/ /\ classify.pc = "idle"
       /\ \/ \E text \in ArrivingTexts, model \in RequestModels : SummarizePOST(text, model)
          \/ SummarizeBadBody
    \/ /\ summarize.pc = "idle"
       /\ \/ \E text \in ClassifyTexts, model \in ClassifyModels, labels \in CustomLabels :
                ClassifyPOST(text, model, labels)
          \/ ClassifyBadBody

\* The call a handler awaits returns to it.
ProviderReturns ==
    \/ \E f \in ReturnedFetches(CandidateId(summarize.idx)) : HuggingFaceReturns(f)
    \/ \E g \in ReturnedGenerations : GeminiReturns(g)
    \/ \E f \in ClassificationFetches : ClassifyHuggingFaceReturns(f)
    \/ \E g \in GeminiClassifications : ClassifyGeminiReturns(g)

NextReturns == RequestArrives \/ ProviderReturns

\* Every remote call returns or fails: the promise a handler awaits is
\* settled, and the event loop then runs the handler on from its await.
\* Nothing makes a request arrive.
LiveProviders ==
    InitProviders /\ [][NextReturns]_vars /\ WF_vars(ProviderReturns)

-----------------------------------------------------------------------------
(* Properties of the fallback chains *)

\* An attempt fails when its call returns no result to the handler.
Failed(result) == ~Truthy(result)

\* A summarization request that passes the validation of its input.
SummarizeValidated ==
    /\ summarize.parsed
    /\ summarize.text.t = "string"
    /\ summarize.text.len >= 50 /\ summarize.text.len <= 10000

\* A classification request that passes the validation of its input.
ClassifyValidated ==
    /\ classify.parsed
    /\ classify.text.t = "string" /\ classify.text.len > 0
    /\ classify.model # "(omitted)"

\* Every attempt of the chain, the Gemini one included, was made and failed.
ChainExhausted(r) ==
    /\ r.pc = "done"
    /\ r.calls # <<>>
    /\ r.calls[Len(r.calls)].key = "gemini"
    /\ Len(r.results) = Len(r.calls)
    /\ \A i \in 1 .. Len(r.results) : Failed(r.results[i])

\* C1: in a summarization request, once candidates 1..k have failed and
\* candidate k+1 has a result, the request is answered with the trimmed
\* output of candidate k+1, and k+1 is the last call of the request: none
\* of the remaining models and not Gemini is called after it.
C1_FirstSuccessIsReturned ==
    \A k \in 1 .. Len(summarize.results) :
        ~Failed(summarize.results[k]) =>
            /\ \A j \in 1 .. k - 1 : Failed(summarize.results[j])
            /\ k = Len(summarize.results)
            /\ Len(summarize.calls) = k
            /\ summarize.pc = "done"
            /\ summarize.response.status = 200
            /\ summarize.response.body.success
            /\ summarize.response.body.data.summary = Trim(summarize.results[k])

\* The first candidate failed, the second has a result, and a third
\* candidate and Gemini were left.
C1_Witness ==
    /\ Len(summarize.results) = 2
    /\ Failed(summarize.results[1])
    /\ ~Failed(summarize.results[2])
    /\ summarize.calls[2].pos = 2
    /\ summarize.response.status = 200

C9_SummarizeValidation ==
    summarize.parsed =>
        IF SummarizeValidated
        THEN summarize.response.status # 400 /\ summarize.calls # <<>>
        ELSE summarize.response.status = 400 /\ summarize.calls = <<>>

\* A text of 10001 characters was answered 400.
C9_Witness ==
    /\ summarize.parsed
    /\ summarize.text.t = "string" /\ summarize.text.len = 10001
    /\ summarize.response.status = 400

\* C10: a validated summarization or classification request ends with an
\* error only when its whole chain is exhausted.
C10_ErrorOnlyOnExhaustion ==
    /\ (summarize.pc = "done" /\ SummarizeValidated /\ ~summarize.response.body.success)
          => ChainExhausted(summarize)
    /\ (classify.pc = "done" /\ ClassifyValidated /\ ~classify.response.body.success)
          => ChainExhausted(classify)

\* The JSON object a Gemini prompt asks for (lines 82-86): a label and a
\* score for the sentiment and the emotion task, labels and scores for the
\* topic task.
AskedShape(model, value) ==
    /\ value.t = "object"
    /\ IF model = "topic-classification"
       THEN /\ {"labels", "scores"} \subseteq DOMAIN value.props
            /\ value.props.labels.t = "array" /\ value.props.labels.items # <<>>
            /\ value.props.scores.t = "array"
            /\ Len(value.props.scores.items) = Len(value.props.labels.items)
       ELSE /\ {"label", "score"} \subseteq DOMAIN value.props
            /\ value.props.label.t = "string"
            /\ value.props.score.t = "number"

\* C11: for each classification task, when Hugging Face has failed and
\* Gemini answers the JSON object its prompt asks for (in a code fence or
\* not), the request succeeds with success true and a result whose label
\* and confidence are those of the object.
C11_GeminiObjectIsNormalized ==
    (/\ classify.pc = "done"
     /\ Len(classify.results) = 2
     /\ classify.calls[2].remote
     /\ AskedShape(classify.model, classify.results[2])) =>
        /\ classify.response.status = 200
        /\ classify.response.body.success
        /\ LET object == classify.results[2]
               data == classify.response.body.data
           IN  IF classify.model = "topic-classification"
               THEN /\ data.label = object.props.labels.items[1]
                    /\ data.confidence = MathRound100(object.props.scores.items[1])
               ELSE /\ data.label = object.props.label
                    /\ data.confidence = MathRound100(object.props.score)

\* The shape the normalization of a task expects of a Hugging Face body
\* (lines 131-153): a list of lists of label/score objects, or the
\* labels/scores object of the zero-shot model.
ExpectedShape(model, value) ==
    IF model = "topic-classification" THEN AskedShape(model, value)
    ELSE /\ value.t = "array" /\ value.items # <<>>
         /\ \A i \in DOMAIN value.items :
               /\ value.items[i].t = "array" /\ value.items[i].items # <<>>
               /\ \A j \in DOMAIN value.items[i].items :
                     AskedShape(model, value.items[i].items[j])

\* C12: a Hugging Face response that is received but has not the shape the
\* normalization expects counts as the failure of Hugging Face: Gemini is
\* tried, and the request does not end with status 500.
C12_UnexpectedShapeIsFailure ==
    (/\ classify.pc = "done"
     /\ classify.results # <<>>
     /\ classify.calls[1].remote
     /\ classify.results[1] # Null
     /\ ~ExpectedShape(classify.model, classify.results[1])) =>
        /\ Len(classify.calls) = 2
        /\ classify.response.status # 500

\* The keys of HUGGINGFACE_MODELS (lines 9-13), in the order they are
\* declared.
KnownModels == <<"bart-cnn", "t5-small", "pegasus">>

IsPrimary(call) == call.fn = "tryHuggingFaceSummarization"

\* The keys of the Hugging Face models a request has attempted, in order.
PrimaryKeys(calls) ==
    LET primary == SelectSeq(calls, IsPrimary)
    IN  [i \in 1 .. Len(primary) |-> primary[i].key]

\* The candidate list of a request: the preferred model when it is a known
\* one, then the other known models in their order.
RECURSIVE Without(_, _)
Without(keys, key) ==
    IF keys = <<>> THEN <<>>
    ELSE (IF Head(keys) = key THEN <<>> ELSE <<Head(keys)>>) \o Without(Tail(keys), key)

CandidateList(model) ==
    IF \E i \in DOMAIN KnownModels : KnownModels[i] = model
    THEN <<model>> \o Without(KnownModels, model)
    ELSE KnownModels

\* C13: when every Hugging Face attempt of a summarization request has
\* failed and Gemini is called, the models attempted are the preferred
\* model (when recognized) and then every other known model once, in the
\* fixed order: none twice, none left out.
C13_EachModelOnce ==
    (/\ summarize.calls # <<>>
     /\ summarize.calls[Len(summarize.calls)].fn = "tryGeminiSummarization") =>
        PrimaryKeys(summarize.calls) = CandidateList(summarize.model)

\* The keys of HUGGINGFACE_CLASSIFICATION_MODELS (lines 10-14).
KnownClassificationModels ==
    {"sentiment-analysis", "topic-classification", "emotion-detection"}

\* C14: on both routes a candidate key that is not a recognized key of the
\* task is skipped: no remote call is issued for it.
C14_UnrecognizedKeySkipped ==
    /\ \A i \in DOMAIN summarize.calls :
          summarize.calls[i].fn = "tryHuggingFaceSummarization" /\ summarize.calls[i].remote =>
              \E k \in DOMAIN KnownModels : KnownModels[k] = summarize.calls[i].key
    /\ \A i \in DOMAIN classify.calls :
          classify.calls[i].fn = "tryHuggingFaceClassification" /\ classify.calls[i].remote =>
              classify.calls[i].key \in KnownClassificationModels

\* C23: a successful summarization of a text of o words (o > 0) with a
\* summary of s words returns wordCount s and compressionRatio the integer
\* nearest to (1 - s/o) * 100; for o = 100 and s = 20 that is 80.
C23_CompressionRatio ==
    (summarize.response.status = 200 /\ countWords(summarize.text) > 0) =>
        LET o == countWords(summarize.text)
            data == summarize.response.body.data
            s == countWords(data.summary)
        IN  /\ data.wordCount = s
            /\ data.compressionRatio = JsNumber(MathRoundDiv(100 * (o - s), o))
            /\ (o = 100 /\ s = 20) => data.compressionRatio = JsNumber(80)

\* C30: in every successful summarization response compressionRatio is a
\* finite integer of at most 100, for every accepted text (the text without
\* a word included) and every summary accepted as a result.
C30_RatioIsFiniteInteger ==
    summarize.response.status = 200 =>
        /\ summarize.response.body.data.compressionRatio.t = "number"
        /\ summarize.response.body.data.compressionRatio.n \in Int
        /\ summarize.response.body.data.compressionRatio.n <= 100

\* The attempts of a request: the positions in its calls of the calls of the
\* primary provider, and of the secondary.
PrimaryAttempts(r) ==
    {i \in DOMAIN r.calls : r.calls[i].fn \in
        {"tryHuggingFaceSummarization", "tryHuggingFaceClassification"}}
SecondaryAttempts(r) == DOMAIN r.calls \ PrimaryAttempts(r)

\* At most primary attempts of the primary provider and one of the
\* secondary, which comes last and after attempts that all failed.
BoundedAttempts(r, primary) ==
    /\ Cardinality(PrimaryAttempts(r)) <= primary
    /\ Cardinality(SecondaryAttempts(r)) <= 1
    /\ \A i \in SecondaryAttempts(r) :
          /\ i = Len(r.calls)
          /\ \A j \in 1 .. i - 1 : j \in PrimaryAttempts(r) /\ Failed(r.results[j])

\* A request is answered when the handler is done, and not before.
AnsweredWhenDone(r) == r.response.status # 0 <=> r.pc = "done"

\* C29: with every remote call returning or failing, a summarization or
\* classification request that has arrived is eventually answered, once:
\* the response, once sent, stays as it is. A summarization request makes at
\* most three primary attempts and one secondary, a classification request
\* at most one of each, and the secondary attempt follows primary attempts
\* that all gave no result.
C29_AnsweredAfterBoundedAttempts ==
    /\ [](/\ BoundedAttempts(summarize, 3) /\ AnsweredWhenDone(summarize)
          /\ BoundedAttempts(classify, 1) /\ AnsweredWhenDone(classify))
    /\ [][/\ summarize.pc = "done" => summarize' = summarize
          /\ classify.pc = "done" => classify' = classify]_vars
    /\ (summarize.pc # "idle") ~> (summarize.pc = "done")
    /\ (classify.pc # "idle") ~> (classify.pc = "done")

\* All four attempts of a summarization request were made, and it is answered.
C29_Witness ==
    /\ summarize.pc = "done"
    /\ summarize.response.status \in {200, 503}
    /\ Cardinality(PrimaryAttempts(summarize)) = 3
    /\ Cardinality(SecondaryAttempts(summarize)) = 1
    /\ summarize.calls[4].remote

-----------------------------------------------------------------------------
(* Properties of the document route *)

\* The chunks of the store vectorStore refers to.
CurrentStore == IF vectorStore = 0 THEN <<>> ELSE stores[vectorStore]

\* The document store as a request finds it: whether it exists, and its chunks.
DocumentStore == [exists |-> vectorStore # 0, chunks |-> CurrentStore]

\* The steps of an upload: it begins, and it is answered.
UploadBegins(r) == rag[r] = RagIdle /\ rag'[r].pc = "embedding"
UploadSucceeds(r) ==
    rag[r].pc = "embedding" /\ rag'[r] = RagIdle /\ ragResponse'.status = 200
UploadFails(r) ==
    rag[r].pc = "embedding" /\ rag'[r] = RagIdle /\ ragResponse'.status # 200

Occurrences(batch, batches) ==
    Cardinality({i \in DOMAIN batches : batches[i] = batch})

Batches(batches) == {batches[i] : i \in DOMAIN batches}

\* C3: a successful upload increases documentCount by exactly 1, whatever
\* the number of chunks of the file (none included); right after a clear
\* documentCount is 0; no other step changes documentCount.
C3_DocumentCountSteps ==
    [][/\ \A r \in Requests : UploadSucceeds(r) => documentCount' = documentCount + 1
       /\ ragResponse'.request.kind = "clear" => documentCount' = 0
       /\ documentCount' # documentCount =>
             \/ \E r \in Requests : UploadSucceeds(r)
             \/ ragResponse'.request.kind = "clear"]_vars

\* A second file, without chunks, has been uploaded and counted.
C3_Witness ==
    /\ ragResponse.request.kind = "upload"
    /\ ragResponse.status = 200
    /\ ragResponse.body.data.chunkCount = 0
    /\ ragResponse.body.data.totalDocuments = 2
    /\ documentCount = 2

\* C4: while no clear is requested, once the uploads have completed the
\* store holds every chunk of every file uploaded with success, and
\* documentCount is the number of those uploads.
C4_NoChunkLost ==
    Uploading = {} =>
        /\ documentCount = Len(uploaded)
        /\ \A batch \in Batches(uploaded) \cup Batches(CurrentStore) :
              Occurrences(batch, CurrentStore) = Occurrences(batch, uploaded)

\* C5: an upload whose embedding request fails is answered with an error,
\* and no step of it changes the document store (whether it exists, its
\* chunks) or documentCount.
C5_FailedUploadChangesNothing ==
    [][\A r \in Requests :
          /\ UploadBegins(r) \/ UploadFails(r) =>
                DocumentStore' = DocumentStore /\ documentCount' = documentCount
          /\ UploadFails(r) =>
                ragResponse'.status = 500 /\ ~ragResponse'.body.success]_vars

\* The embedding of a file for a store that holds a file has failed.
C5_Witness ==
    /\ ragResponse.request.kind = "upload"
    /\ ragResponse.request.embedCalled
    /\ ragResponse.status = 500
    /\ ChunkCount(CurrentStore) > 0
    /\ documentCount > 0

\* C6: a query handled while the document store holds no chunk (never fed,
\* cleared, or left without chunks otherwise) fails, with the NoDocuments
\* error when its question is valid, and calls neither the embedding nor
\* the chat-completion capability.
C6_NoChunksNoCalls ==
    [][\A r \in Requests :
          rag[r].pc = "json" /\ rag'[r] # rag[r] /\ ChunkCount(CurrentStore) = 0 =>
              /\ rag'[r] = RagIdle
              /\ ~ragResponse'.request.embedCalled
              /\ ~ragResponse'.request.chatCalled
              /\ ragResponse'.body.error \in
                    {"Question is required",
                     "Server error: No documents have been uploaded yet."}]_vars

\* C15: while OPENROUTER_API_KEY is absent or the placeholder, a request
\* that is valid otherwise is answered 400 and the chat-completion
\* capability is not called: a query of the document route on a store with
\* chunks, a Q&A request, an enhanced-chat request.
C15_MissingCredentialIs400 ==
    NotConfigured(env.OPENROUTER_API_KEY) =>
        /\ \A r \in Requests : ~rag[r].chatCalled
        /\ (/\ ragResponse.request.kind = "query"
            /\ ragResponse.body.error # "Question is required"
            /\ ChunkCount(CurrentStore) > 0) =>
               ragResponse.status = 400 /\ ~ragResponse.request.chatCalled
        /\ ~qna.chatCalled
        /\ (/\ qna.pc = "done"
            /\ Truthy(qna.question) /\ qna.question.t = "string") =>
               qna.response.status = 400
        /\ \A c \in Chats : chat[c].pc = "idle"
        /\ chatResponse.status \in {0, 400}

\* C16: an upload whose declared type is none of PDF, DOCX and plain text
\* fails with the UnsupportedMediaType error, answered with status 400, and
\* leaves the document store and documentCount as they are.
C16_UnsupportedTypeIs400 ==
    [][(/\ ragResponse'.request.kind = "upload"
        /\ ~ragResponse'.body.success
        /\ ragResponse'.body.error = UnsupportedMediaType) =>
           /\ ragResponse'.status = 400
           /\ DocumentStore' = DocumentStore
           /\ documentCount' = documentCount]_vars

\* C17: a query with a valid question handled while there is no store
\* (nothing ingested yet, or cleared) is answered with success false and
\* status 400 or 409.
C17_NoDocumentsIs400 ==
    [][\A r \in Requests :
          (/\ rag[r].pc = "json"
           /\ rag'[r] # rag[r]
           /\ vectorStore = 0
           /\ ragResponse'.body.error # "Question is required") =>
              /\ ~ragResponse'.body.success
              /\ ragResponse'.status \in {400, 409}]_vars

\* The error of queryDocuments for no store (lines 252-254), as the catch
\* of the route words it.
NoDocuments == "Server error: No documents have been uploaded yet."

\* C24: a query is not isolated from a clear. The query with a valid
\* question fails with the NoDocuments error exactly when there is no store
\* at the moment its body has been read, whatever the store was when the
\* query arrived; and nothing but a clear takes the store away. So a query
\* that arrived at a store with chunks fails with NoDocuments when a clear
\* ran in between.
C24_QueryRacesClear ==
    [][/\ \A r \in Requests :
              (/\ rag[r].pc = "json"
               /\ rag'[r] # rag[r]
               /\ ragResponse'.body.error # "Question is required") =>
                  (vectorStore = 0 <=>
                      /\ ragResponse'.status = 500
                      /\ ragResponse'.body.error = NoDocuments)
       /\ (vectorStore # 0 /\ vectorStore' = 0) =>
              ragResponse'.request.kind = "clear"]_vars

\* A query that arrived at a store with chunks has failed with NoDocuments.
C24_Witness ==
    /\ ragResponse.request.kind = "query"
    /\ ragResponse.request.nonEmpty
    /\ ragResponse.status = 500
    /\ ragResponse.body.error = NoDocuments
    /\ vectorStore = 0

\* C26: in every state there is no store exactly when documentCount is 0,
\* and a status response reports hasDocuments exactly when it reports
\* totalDocuments above 0.
C26_StoreAndCountAgree ==
    /\ vectorStore = 0 <=> documentCount = 0
    /\ ragResponse.request.kind = "status" =>
          (ragResponse.body.data.hasDocuments <=> ragResponse.body.data.totalDocuments > 0)

\* C27: every successful query response (success true with an answer)
\* reports totalDocuments of at least 1.
C27_AnswerCountsDocuments ==
    (/\ ragResponse.request.kind = "query"
     /\ ragResponse.status = 200
     /\ ragResponse.body.success) => ragResponse.body.data.totalDocuments >= 1

\* A response is an error in structured JSON: success false and an error
\* string.
StructuredError(response) ==
    /\ response.type = "json"
    /\ ~response.body.success
    /\ response.body.error # ""

\* C18: every error response of a non-streaming endpoint (summarization,
\* classification, Q&A, document upload, query and clear) has a status
\* other than 200 and a JSON body with success false and an error string;
\* none is plain text.
C18_ErrorsAreJson ==
    \A response \in {summarize.response, classify.response, qna.response,
                      [status |-> ragResponse.status, type |-> ragResponse.type,
                       body |-> ragResponse.body]} :
        response.status \notin {0, 200} => StructuredError(response)

\* The source filenames that have a chunk in a store.
SourceFiles(batches) ==
    {batches[i].name : i \in {j \in DOMAIN batches : batches[j].chunks > 0}}

\* C21: in every state documentCount is the number of distinct source
\* filenames with at least one chunk in the document store, and no step
\* other than a clear decreases documentCount.
C21_CountIsDistinctSources ==
    /\ [](documentCount = Cardinality(SourceFiles(CurrentStore)))
    /\ [][documentCount' < documentCount => ragResponse'.request.kind = "clear"]_vars

-----------------------------------------------------------------------------
(* Properties of the enhanced-chat route *)

\* The text the model produced: the responses of its chunks, in order.
RECURSIVE ProducedText(_)
ProducedText(produced) ==
    IF produced = <<>> THEN <<>>
    ELSE (IF Head(produced).t = "text" THEN Head(produced).chars ELSE <<>>)
         \o ProducedText(Tail(produced))

\* The bytes the stream took: those of its enqueue calls, in order.
RECURSIVE EnqueuedBytes(_)
EnqueuedBytes(calls) ==
    IF calls = <<>> THEN <<>>
    ELSE (IF Head(calls).op = "enqueue" /\ Head(calls).ok THEN Head(calls).bytes ELSE <<>>)
         \o EnqueuedBytes(Tail(calls))

C8_SessionsIsolated ==
    /\ \A s1, s2 \in SessionKeys :
          s1 # s2 /\ conversationMemories[s1] # 0 =>
              conversationMemories[s1] # conversationMemories[s2]
    /\ \A s1 \in SessionKeys :
          conversationMemories[s1] # 0 =>
              \A i \in DOMAIN memories[conversationMemories[s1]] :
                  memories[conversationMemories[s1]][i].sessionId = s1
    /\ \A c \in Chats :
          chat[c].pc # "idle" =>
              /\ chat[c].memory = conversationMemories[chat[c].sessionId]
              /\ \A i \in DOMAIN chat[c].history :
                    chat[c].history[i].sessionId = chat[c].sessionId

\* Both sessions have a turn in their memory, and a request of one of them
\* has read its history.
C8_Witness ==
    /\ \A s1 \in SessionKeys :
          conversationMemories[s1] # 0 /\ memories[conversationMemories[s1]] # <<>>
    /\ \E c \in Chats : chat[c].pc = "opening" /\ chat[c].history # <<>>

\* C19: every error response of the enhanced-chat route is plain text with
\* a status other than 200 and carries no stream, and a request that ends
\* before its stream is read ends with such a response; when the model
\* stream throws after the stream began, the stream becomes errored by a
\* controller.error that is the last call on its controller, so no fragment
\* is enqueued after it, and no call has closed the stream.
C19_ErrorsEndTheStream ==
    [][/\ chatResponse'.status \notin {0, 200} =>
              /\ chatResponse'.status >= 400
              /\ chatResponse'.type = "text/plain"
              /\ chatResponse'.body # StreamResponse.body
       /\ \A c \in Chats :
              /\ chat[c].pc = "opening" /\ chat'[c].pc = "idle" =>
                     chatResponse'.status \notin {0, 200}
              /\ chat[c].pc = "streaming" /\ chat'[c].pc = "idle"
                     /\ chatResponse'.request.pc = "failed" =>
                     LET s == chatResponse'.request
                     IN  /\ s.state = "errored"
                         /\ s.calls = Append(chat[c].calls, Call("error", <<>>, "readable"))
                         /\ \A i \in DOMAIN s.calls : s.calls[i].op # "close"]_vars

\* The model stream has thrown after a fragment was enqueued.
C19_Witness ==
    /\ chatResponse.request.pc = "failed"
    /\ Len(chatResponse.request.calls) = 2
    /\ chatResponse.request.calls[1].op = "enqueue"
    /\ chatResponse.request.calls[1].ok

\* C22: the session-memory map after a request of one of the four
\* personas, the memory the request uses and the history it reads are
\* those that the map before it and its session id give, whichever the
\* persona: the persona has no part in them.
C22_PersonaLeavesMemory ==
    [][\A c \in Chats :
          chat[c].pc = "idle" /\ chat'[c].pc = "opening" /\ chat'[c].persona \in Personas =>
              /\ conversationMemories' =
                     getOrCreateMemory(conversationMemories, chat'[c].sessionId)
              /\ chat'[c].memory = conversationMemories'[chat'[c].sessionId]
              /\ chat'[c].history = memories[chat'[c].memory]
              /\ memories' = memories]_vars

\* Two requests of one session and of different personas are in flight,
\* both with the memory of the session.
C22_Witness ==
    /\ chat["first"].pc = "opening" /\ chat["second"].pc = "opening"
    /\ chat["first"].persona = "developer" /\ chat["second"].persona = "analyst"
    /\ chat["first"].sessionId = chat["second"].sessionId
    /\ chat["first"].memory = chat["second"].memory
    /\ chat["first"].memory = conversationMemories["alice"]

\* C25: a session id has one memory for the life of the process. An entry
\* of the Map is never replaced or removed; a request whose session id has
\* an entry uses the memory of that entry, and a request whose session id
\* has none makes a memory that no session id had and uses it.
C25_OneMemoryPerSession ==
    [][/\ \A key \in SessionKeys :
              conversationMemories[key] # 0 =>
                  conversationMemories'[key] = conversationMemories[key]
       /\ \A c \in Chats :
              chat[c].pc = "idle" /\ chat'[c].pc = "opening" =>
                  LET key == chat'[c].sessionId
                  IN  /\ chat'[c].memory # 0
                      /\ chat'[c].memory = conversationMemories'[key]
                      /\ conversationMemories[key] = 0 =>
                             \A other \in SessionKeys :
                                 conversationMemories[other] # chat'[c].memory]_vars

\* A second request of the session default is in flight, with the memory
\* the first one made and the turn the first one saved.
C25_Witness ==
    \E c \in Chats :
        /\ chat[c].pc = "opening"
        /\ chat[c].sessionId = "default"
        /\ chat[c].memory = conversationMemories["default"]
        /\ chat[c].history = <<Turn("default")>>
        /\ memories[chat[c].memory] = <<Turn("default")>>

\* C28: a request the handler answers with a status other than 200 before
\* it opens a chain (credential missing, messages not an array, messages
\* empty, persona unknown) leaves the map of session memories as it was.
C28_FailedRequestLeavesMemories ==
    [][(chatResponse'.status \notin {0, 200} /\ chat' = chat) =>
           conversationMemories' = conversationMemories]_vars

\* The fragments a step pulls from the model stream of a request, and the
\* calls it makes on the controller of its stream.
Pulled(c) ==
    IF chat[c].pc = "streaming" /\ chat'[c].pc = "idle"
    THEN Len(chatResponse'.request.produced) - Len(chat[c].produced)
    ELSE Len(chat'[c].produced) - Len(chat[c].produced)

Enqueues(c) ==
    LET calls == IF chat[c].pc = "streaming" /\ chat'[c].pc = "idle"
                 THEN chatResponse'.request.calls ELSE chat'[c].calls
    IN  {i \in DOMAIN calls : i > Len(chat[c].calls) /\ calls[i].op = "enqueue"}

\* C20: once the caller of a request has disconnected, no step pulls a
\* fragment from the model stream of the request, and no step calls
\* enqueue on the controller of its stream.
C20_DisconnectAbandons ==
    [][\A c \in Chats :
          chat[c].disconnected => Pulled(c) = 0 /\ Enqueues(c) = {}]_vars

====
